---- MODULE Spec2Model ----
(***************************************************************************)
(* A model of the MAUI/XAML design-token plugin (pluginMAUI, Version 1.03) *)
(* of the Cobalt token pipeline.                                           *)
(*                                                                         *)
(* JavaScript strings that the code inspects (token ids, regular           *)
(* expression patterns, leaf values) are sequences of one-character        *)
(* strings; strings that the code only concatenates (mode names,           *)
(* collection names, directories, file names) are TLA+ strings.            *)
(* JavaScript values carry their dynamic type in a field t, and a token    *)
(* object lives in a heap of objects, so that copying a token and writing  *)
(* to a token are different things.                                        *)
(***************************************************************************)
EXTENDS Integers, Sequences, FiniteSets, TLC

VARIABLES
    heap,          \* the objects of the program: heap[r] is the token object r
    tokens,        \* build's argument `tokens`: an array of references, or no array
    options,       \* the options pluginMAUI was constructed with
    pc,            \* the position of the current build invocation
    allModes,      \* build's local allModes
    regexPatterns, \* build's local regexPatterns
    outputs,       \* build's local outputs
    modeIndex,     \* the position of allModes.forEach
    result,        \* what the caller of build has received
    console,       \* what console.error has been given
    run,           \* the number of the build invocation on this plugin object
    previous,      \* the result the caller received from the invocation before
    groupsByType,  \* the value groupTokensByType returned, when called on its own
    argument,      \* the arguments of a function that is called on its own
    returned,      \* the value that function returned
    disk,          \* the content of the stylesheet the post-processing script works on
    data,          \* what the script has read from the stylesheet
    filteredContent \* what the script is writing to the stylesheet

vars == <<heap, tokens, options, pc, allModes, regexPatterns, outputs,
          modeIndex, result, console, run, previous, groupsByType,
          argument, returned, disk, data, filteredContent>>

(***************************************************************************)
(* Bounds of the model.                                                    *)
(***************************************************************************)
MaxTokens == 2
MaxLayers == 2
MaxGrouped == 4
MaxAssembled == 4
MaxChars == 4
MaxPairs == 4
MaxLines == 5

(***************************************************************************)
(* Strings as sequences of characters.                                     *)
(***************************************************************************)
LowerLetters ==
    <<"a","b","c","d","e","f","g","h","i","j","k","l","m",
      "n","o","p","q","r","s","t","u","v","w","x","y","z">>

UpperLetters ==
    <<"A","B","C","D","E","F","G","H","I","J","K","L","M",
      "N","O","P","Q","R","S","T","U","V","W","X","Y","Z">>

DigitChars == <<"0","1","2","3","4","5","6","7","8","9">>

Range(s) == {s[i] : i \in DOMAIN s}

IndexIn(c, s) == CHOOSE i \in DOMAIN s : s[i] = c

\* String.prototype.toUpperCase, one character
UpperChar(c) ==
    IF c \in Range(LowerLetters) THEN UpperLetters[IndexIn(c, LowerLetters)] ELSE c

\* String.prototype.toLowerCase, one character
LowerChar(c) ==
    IF c \in Range(UpperLetters) THEN LowerLetters[IndexIn(c, UpperLetters)] ELSE c

toUpperCase(s) == [i \in DOMAIN s |-> UpperChar(s[i])]

toLowerCase(s) == [i \in DOMAIN s |-> LowerChar(s[i])]

\* String.prototype.endsWith
endsWith(s, suffix) ==
    /\ Len(suffix) <= Len(s)
    /\ SubSeq(s, Len(s) - Len(suffix) + 1, Len(s)) = suffix

\* the positions at which `what` occurs in s
Occurrences(s, what) ==
    {i \in 1..(Len(s) - Len(what) + 1) : SubSeq(s, i, i + Len(what) - 1) = what}

Min(S) == CHOOSE m \in S : \A k \in S : m <= k

\* String.prototype.replace(what, "") with a string `what`: the FIRST
\* occurrence is removed, the others stay
removeFirst(s, what) ==
    IF Occurrences(s, what) = {} THEN s
    ELSE LET i == Min(Occurrences(s, what))
         IN  SubSeq(s, 1, i - 1) \o SubSeq(s, i + Len(what), Len(s))

\* String.prototype.replace(/\s/g, "")
stripWhitespace(s) == SelectSeq(s, LAMBDA c : c # " ")

px == <<"p", "x">>

\* the decimal digits of a natural number
RECURSIVE Digits(_)
Digits(n) ==
    IF n < 10 THEN <<DigitChars[n + 1]>>
    ELSE Digits(n \div 10) \o <<DigitChars[(n % 10) + 1]>>

(***************************************************************************)
(* F applied to the value of x: F(x), written so that x is evaluated once, *)
(* however often F uses it.                                                *)
(***************************************************************************)
With(F(_), x) == CHOOSE r \in {F(v) : v \in {x}} : TRUE

With2(F(_, _), x, y) == CHOOSE r \in {F(v, w) : v \in {x}, w \in {y}} : TRUE

(***************************************************************************)
(* JavaScript values: undefined, strings, numbers, arrays and objects.     *)
(***************************************************************************)
Undefined == [t |-> "undefined"]

Str(s) == [t |-> "string", s |-> s]

Num(n) == [t |-> "number", n |-> n]

Arr(items) == [t |-> "array", items |-> items]

\* a file that is not there
Missing == [t |-> "missing"]

Obj(f) == [t |-> "object", f |-> f]

Bool(b) == [t |-> "boolean", b |-> b]

\* ToBoolean: what `a && b`, `!a` and `if (a)` see
Truthy(v) ==
    CASE v.t = "undefined" -> FALSE
      [] v.t = "string"    -> v.s # <<>>
      [] v.t = "number"    -> v.n # 0
      [] v.t = "boolean"   -> v.b
      [] OTHER             -> TRUE

\* ToString of a primitive value, as a template literal `${v}` prints it
\* (objects print as [object Object]; arrays are not printed by this code
\* for the values of the model)
ToStringJS(v) ==
    CASE v.t = "undefined" -> <<"u","n","d","e","f","i","n","e","d">>
      [] v.t = "string"    -> v.s
      [] v.t = "number"    -> IF v.n < 0 THEN <<"-">> \o Digits(0 - v.n) ELSE Digits(v.n)
      [] v.t = "boolean"   -> IF v.b THEN <<"t","r","u","e">> ELSE <<"f","a","l","s","e">>
      [] OTHER             -> <<"[","o","b","j","e","c","t"," ","O","b","j","e","c","t","]">>

(***************************************************************************)
(* Regular expressions: new RegExp(pattern) and RegExp.prototype.test, for *)
(* the patterns made of literal letters, the assertions ^ and $, and the   *)
(* group opener "(" (which, never closed, is a syntax error).  The regular *)
(* expressions carry no flag, so test keeps no position between calls.     *)
(***************************************************************************)
RegExpSyntaxError(pattern) == "(" \in Range(pattern)

RegExp(pattern) == [source |-> pattern]

RECURSIVE MatchAt(_, _, _, _)
MatchAt(p, i, s, pos) ==
    IF i > Len(p) THEN TRUE
    ELSE CASE p[i] = "^" -> pos = 1 /\ MatchAt(p, i + 1, s, pos)
           [] p[i] = "$" -> pos = Len(s) + 1 /\ MatchAt(p, i + 1, s, pos)
           [] OTHER      -> /\ pos <= Len(s)
                            /\ s[pos] = p[i]
                            /\ MatchAt(p, i + 1, s, pos + 1)

test(regex, s) == \E pos \in 1..(Len(s) + 1) : MatchAt(regex.source, 1, s, pos)

(***************************************************************************)
(* Natural numbers of any size, for the significands of the Number values: *)
(* a sequence of limbs in base 2^15, the least significant first, with no  *)
(* zero limb at the top (zero is the empty sequence).                      *)
(***************************************************************************)
LimbBits == 15

Base == 32768

Max(S) == CHOOSE m \in S : \A k \in S : k <= m

\* the limbs of a up to its last limb that is not 0
Trim(a) ==
    With(LAMBDA v : SubSeq(v, 1, Max({0} \cup {i \in DOMAIN v : v[i] # 0})), a)

RECURSIVE BigOf(_)
BigOf(n) == IF n = 0 THEN <<>> ELSE <<n % Base>> \o BigOf(n \div Base)

Limb(a, i) == IF i \in DOMAIN a THEN a[i] ELSE 0

RECURSIVE AddFrom(_, _, _, _)
AddFrom(a, b, i, carry) ==
    IF i > Len(a) /\ i > Len(b)
    THEN IF carry = 0 THEN <<>> ELSE <<carry>>
    ELSE With(LAMBDA t : <<t % Base>> \o AddFrom(a, b, i + 1, t \div Base),
              Limb(a, i) + Limb(b, i) + carry)

BigAdd(a, b) == With2(LAMBDA v, w : AddFrom(v, w, 1, 0), a, b)

RECURSIVE SubFrom(_, _, _, _)
SubFrom(a, b, i, borrow) ==
    IF i > Len(a) THEN <<>>
    ELSE With(LAMBDA t : <<t % Base>> \o SubFrom(a, b, i + 1, IF t < 0 THEN 1 ELSE 0),
              Limb(a, i) - Limb(b, i) - borrow)

\* a - b, for a >= b
BigSub(a, b) == Trim(With2(LAMBDA v, w : SubFrom(v, w, 1, 0), a, b))

RECURSIVE LessFrom(_, _, _)
LessFrom(a, b, i) ==
    IF i = 0 THEN FALSE
    ELSE IF a[i] # b[i] THEN a[i] < b[i]
    ELSE LessFrom(a, b, i - 1)

\* a < b
BigLess(a, b) ==
    With2(LAMBDA v, w : IF Len(v) # Len(w) THEN Len(v) < Len(w)
                        ELSE LessFrom(v, w, Len(v)),
          a, b)

RECURSIVE MulSmallFrom(_, _, _, _)
MulSmallFrom(a, k, i, carry) ==
    IF i > Len(a)
    THEN IF carry = 0 THEN <<>> ELSE <<carry>>
    ELSE With(LAMBDA t : <<t % Base>> \o MulSmallFrom(a, k, i + 1, t \div Base),
              a[i] * k + carry)

\* a * k, for a limb k
BigMulSmall(a, k) ==
    With2(LAMBDA v, w : IF w = 0 THEN <<>> ELSE MulSmallFrom(v, w, 1, 0), a, k)

\* a * b, limb after limb of b from limb i on
RECURSIVE MulFrom(_, _, _)
MulFrom(a, b, i) ==
    IF i > Len(b) THEN <<>>
    ELSE BigAdd(BigMulSmall(a, b[i]),
                With(LAMBDA rest : IF rest = <<>> THEN <<>> ELSE <<0>> \o rest,
                     MulFrom(a, b, i + 1)))

BigMul(a, b) ==
    With2(LAMBDA v, w : IF v = <<>> THEN <<>> ELSE MulFrom(v, w, 1), a, b)

RECURSIVE BigPow(_, _)
BigPow(k, n) == IF n = 0 THEN <<1>> ELSE BigMulSmall(BigPow(k, n - 1), k)

\* quotient and remainder of a by a limb k > 0, from the top limb down
RECURSIVE DivSmallFrom(_, _, _, _)
DivSmallFrom(a, k, i, rem) ==
    IF i = 0 THEN [q |-> <<>>, r |-> rem]
    ELSE With(LAMBDA cur :
                  With(LAMBDA rest : [q |-> Append(rest.q, cur \div k), r |-> rest.r],
                       DivSmallFrom(a, k, i - 1, cur % k)),
              rem * Base + a[i])

BigDivSmall(a, k) ==
    With2(LAMBDA v, w :
              With(LAMBDA d : [q |-> Trim(d.q), r |-> d.r], DivSmallFrom(v, w, Len(v), 0)),
          a, k)

\* a * 2^bits
BigShl(a, bits) ==
    With2(LAMBDA v, w :
              IF v = <<>> THEN <<>>
              ELSE [i \in 1..(w \div LimbBits) |-> 0] \o BigMulSmall(v, 2^(w % LimbBits)),
          a, bits)

\* a \div 2^bits
BigShr(a, bits) ==
    With2(LAMBDA v, w :
              IF w \div LimbBits >= Len(v) THEN <<>>
              ELSE BigDivSmall(SubSeq(v, (w \div LimbBits) + 1, Len(v)),
                               2^(w % LimbBits)).q,
          a, bits)

\* the bit of a at position pos, counted from 0
BitAt(a, pos) ==
    With(LAMBDA p : (Limb(a, (p \div LimbBits) + 1) \div 2^(p % LimbBits)) % 2, pos)

\* a % 2^bits = 0
LowBitsZero(a, bits) ==
    With2(LAMBDA v, w :
              /\ \A i \in 1..(w \div LimbBits) : Limb(v, i) = 0
              /\ Limb(v, (w \div LimbBits) + 1) % 2^(w % LimbBits) = 0,
          a, bits)

RECURSIVE SmallBitLength(_)
SmallBitLength(n) == IF n = 0 THEN 0 ELSE 1 + SmallBitLength(n \div 2)

BitLength(a) ==
    With(LAMBDA v : IF v = <<>> THEN 0
                    ELSE LimbBits * (Len(v) - 1) + SmallBitLength(v[Len(v)]),
         a)

\* the position of the lowest bit of a that is 1, for a > 0
TrailingZeros(a) ==
    With(LAMBDA v : Min({p \in 0..(BitLength(v) - 1) : BitAt(v, p) = 1}), a)

\* the greatest limb q with b * q <= cur, searched down from an estimate
RECURSIVE QuotientLimb(_, _, _)
QuotientLimb(cur, b, estimate) ==
    IF BigLess(cur, BigMulSmall(b, estimate))
    THEN QuotientLimb(cur, b, estimate - 1)
    ELSE estimate

\* the limb of the quotient of cur by b, whose top limb has its top bit
\* set: the estimate made from the top limbs is at most 2 too large
QuotientLimbOf(cur, b) ==
    With(LAMBDA estimate : QuotientLimb(cur, b, estimate),
         Min({Base - 1,
              (Limb(cur, Len(b) + 1) * Base + Limb(cur, Len(b))) \div b[Len(b)]}))

\* long division of the limbs of a from limb i up by b
RECURSIVE DivLimbs(_, _, _)
DivLimbs(a, b, i) ==
    IF i > Len(a) THEN [q |-> <<>>, r |-> <<>>]
    ELSE With(LAMBDA above :
                  With(LAMBDA cur :
                           With(LAMBDA limb :
                                    [q |-> <<limb>> \o above.q,
                                     r |-> BigSub(cur, BigMulSmall(b, limb))],
                                QuotientLimbOf(cur, b)),
                       Trim(<<a[i]>> \o above.r)),
              DivLimbs(a, b, i + 1))

\* quotient and remainder of a by b > 0
BigDiv(a, b) ==
    With2(LAMBDA v, w :
              IF Len(w) = 1
              THEN With(LAMBDA d : [q |-> d.q, r |-> BigOf(d.r)], BigDivSmall(v, w[1]))
              ELSE With2(LAMBDA shift, d : [q |-> Trim(d.q), r |-> BigShr(d.r, shift)],
                         LimbBits - SmallBitLength(w[Len(w)]),
                         DivLimbs(BigShl(v, LimbBits - SmallBitLength(w[Len(w)])),
                                  BigShl(w, LimbBits - SmallBitLength(w[Len(w)])), 1)),
          a, b)

\* the value of a sequence of decimal digits
RECURSIVE BigOfDigits(_)
BigOfDigits(d) ==
    IF d = <<>> THEN <<>>
    ELSE BigAdd(BigMulSmall(BigOfDigits(SubSeq(d, 1, Len(d) - 1)), 10),
                BigOf(IndexIn(d[Len(d)], DigitChars) - 1))

\* the decimal digits of a natural number of any size
RECURSIVE BigDigitsOf(_)
BigDigitsOf(a) ==
    IF a = <<>> THEN <<>>
    ELSE With(LAMBDA d : BigDigitsOf(d.q) \o <<DigitChars[d.r + 1]>>, BigDivSmall(a, 10))

BigDigits(a) == With(LAMBDA v : BigDigitsOf(v), a)

(***************************************************************************)
(* Numbers: the IEEE 754 double precision values that parseFloat, the      *)
(* arithmetic and Math.round produce.  A finite number is the significand  *)
(* m (odd, or zero) times 2^e, with a sign; each operation rounds its      *)
(* exact result to 53 bits, to nearest, a tie going to the even            *)
(* significand.  The exponent is not limited: the values of the model stay *)
(* far from overflow and from the subnormal numbers.                       *)
(***************************************************************************)
Precision == 53

NaN == [k |-> "NaN", neg |-> FALSE, m |-> <<>>, e |-> 0]

Infinity(negative) == [k |-> "Infinity", neg |-> negative, m |-> <<>>, e |-> 0]

\* the finite number m * 2^e with the sign, its significand made odd
Finite(negative, m, e) ==
    With(LAMBDA v :
             IF v = <<>> THEN [k |-> "finite", neg |-> negative, m |-> <<>>, e |-> 0]
             ELSE With(LAMBDA zeros : [k |-> "finite", neg |-> negative,
                                       m |-> BigShr(v, zeros), e |-> e + zeros],
                       TrailingZeros(v)),
         m)

\* a number literal of the code that is a natural number
Literal(n) == Finite(FALSE, BigOf(n), 0)

IsInfinite(x) == x.k = "Infinity"

IsZero(x) == x.k = "finite" /\ x.m = <<>>

\* q without its lowest `shift` bits, rounded to nearest by the bits left
\* out and what follows them, a tie going to the even result
RoundedBy(q, shift, inexact) ==
    With(LAMBDA kept :
             IF /\ BitAt(q, shift - 1) = 1
                /\ (inexact \/ ~LowBitsZero(q, shift - 1) \/ BitAt(kept, 0) = 1)
             THEN BigAdd(kept, <<1>>)
             ELSE kept,
         BigShr(q, shift))

\* the exact value (q + fraction) * 2^e rounded to a double, where the
\* fraction is below 1 and `inexact` says that it is not 0
Rounded(negative, q, e, inexact) ==
    With2(LAMBDA v, shift :
              IF shift <= 0 THEN Finite(negative, v, e)
              ELSE Finite(negative, RoundedBy(v, shift, inexact), e + shift),
          q, BitLength(q) - Precision)

\* the double nearest to a * 2^e / b, for a > 0 and b > 0: the numerator is
\* shifted so that the quotient has more bits than a significand holds
Quotient(negative, a, b, e) ==
    With(LAMBDA shift :
             With(LAMBDA d : Rounded(negative, d.q, e - shift, d.r # <<>>),
                  BigDiv(BigShl(a, shift), b)),
         Max({0, Precision + 2 + BitLength(b) - BitLength(a)}))

\* a * b
Times(a, b) ==
    With2(LAMBDA x, y :
              CASE x.k = "NaN" \/ y.k = "NaN"      -> NaN
                [] IsInfinite(x) \/ IsInfinite(y)  ->
                     IF IsZero(x) \/ IsZero(y) THEN NaN
                     ELSE Infinity(x.neg # y.neg)
                [] OTHER                           ->
                     Rounded(x.neg # y.neg, BigMul(x.m, y.m), x.e + y.e, FALSE),
          a, b)

\* a / b
Over(a, b) ==
    With2(LAMBDA x, y :
              CASE x.k = "NaN" \/ y.k = "NaN"      -> NaN
                [] IsInfinite(x) /\ IsInfinite(y)  -> NaN
                [] IsInfinite(x)                   -> Infinity(x.neg # y.neg)
                [] IsInfinite(y)                   -> Finite(x.neg # y.neg, <<>>, 0)
                [] IsZero(y)                       ->
                     IF IsZero(x) THEN NaN ELSE Infinity(x.neg # y.neg)
                [] IsZero(x)                       -> Finite(x.neg # y.neg, <<>>, 0)
                [] OTHER                           ->
                     Quotient(x.neg # y.neg, x.m, y.m, x.e - y.e),
          a, b)

\* the integer part of (m + add) / 2^bits
ShiftedSum(m, add, bits) == BigShr(BigAdd(m, add), bits)

\* Math.round: the nearest integer, a tie going up (towards +Infinity); the
\* result is exact, and keeps the sign of a negative number that rounds to 0
MathRound(number) ==
    With(LAMBDA x :
             IF x.k # "finite" \/ x.e >= 0 THEN x
             ELSE With(LAMBDA half :
                           IF ~x.neg
                           THEN Finite(FALSE, ShiftedSum(x.m, half, 0 - x.e), 0)
                           ELSE IF BigLess(x.m, half) THEN Finite(TRUE, <<>>, 0)
                           ELSE Finite(TRUE,
                                       ShiftedSum(BigSub(x.m, half),
                                                  BigSub(BigShl(<<1>>, 0 - x.e), <<1>>),
                                                  0 - x.e),
                                       0),
                       BigShl(<<1>>, (0 - x.e) - 1)),
         number)

\* the double nearest to digits * 10^exponent
DecimalToDouble(negative, digits, exponent) ==
    With(LAMBDA d :
             IF d = <<>> THEN Finite(negative, <<>>, 0)
             ELSE IF exponent >= 0
             THEN Rounded(negative, BigMul(d, BigPow(5, exponent)), exponent, FALSE)
             ELSE Quotient(negative, d, BigPow(5, 0 - exponent), exponent),
         digits)

\* the longest prefix of s made of decimal digits
RECURSIVE DigitPrefix(_)
DigitPrefix(s) ==
    IF s # <<>> /\ Head(s) \in Range(DigitChars)
    THEN <<Head(s)>> \o DigitPrefix(Tail(s))
    ELSE <<>>

\* the digits after the point that follows the integer part of a numeral
FractionPart(body, int) ==
    IF Len(body) > Len(int) /\ body[Len(int) + 1] = "."
    THEN DigitPrefix(SubSeq(body, Len(int) + 2, Len(body)))
    ELSE <<>>

\* the number that the integer part and the fraction part stand for
ParsedDigits(negative, int, frac) ==
    IF int = <<>> /\ frac = <<>> THEN NaN
    ELSE DecimalToDouble(negative, BigOfDigits(int \o frac), 0 - Len(frac))

\* parseFloat(string): an optional sign, digits, an optional fraction; the
\* rest of the string is ignored; NaN when no digit is found.  (Leading
\* white space, an exponent part and the word Infinity, which parseFloat
\* also reads, do not occur in the strings of the model.)
parseFloat(string) ==
    With(LAMBDA s :
             With(LAMBDA body :
                      With(LAMBDA int :
                               With(LAMBDA frac :
                                        ParsedDigits(s # <<>> /\ Head(s) = "-", int, frac),
                                    FractionPart(body, int)),
                           DigitPrefix(body)),
                  IF s # <<>> /\ Head(s) \in {"-", "+"} THEN Tail(s) ELSE s),
         string)

\* d with zeros in front, up to `width` digits
ZeroPad(d, width) ==
    With(LAMBDA v : IF Len(v) >= width THEN v
                    ELSE [i \in 1..(width - Len(v)) |-> "0"] \o v,
         d)

\* the exact value m * 2^e / 10^p of a finite number, as a fraction
Scaled(x, p) ==
    [num |-> BigMul(BigShl(x.m, Max({x.e, 0})), BigPow(10, Max({0 - p, 0}))),
     den |-> BigShl(BigPow(10, Max({p, 0})), Max({0 - x.e, 0}))]

\* |x| < 10^k
BelowPow10(x, k) == With(LAMBDA f : BigLess(f.num, f.den), Scaled(x, k))

\* the k with 10^(k-1) <= |x| < 10^k, for x # 0, searched from k
RECURSIVE DecimalExponent(_, _)
DecimalExponent(x, k) ==
    IF ~BelowPow10(x, k) THEN DecimalExponent(x, k + 1)
    ELSE IF BelowPow10(x, k - 1) THEN DecimalExponent(x, k - 1)
    ELSE k

\* the remainder of a division by den is above the half of den, or it is
\* the half and the quotient is odd
RoundsUp(d, den) ==
    With(LAMBDA twice : \/ BigLess(den, twice)
                        \/ (twice = den /\ BitAt(d.q, 0) = 1),
         BigMulSmall(d.r, 2))

\* of the two integers next to a quotient that is not whole, the nearer
\* one (the even one at a tie) and the other one
Nearer(d, den) == IF RoundsUp(d, den) THEN BigAdd(d.q, <<1>>) ELSE d.q

Farther(d, den) == IF RoundsUp(d, den) THEN d.q ELSE BigAdd(d.q, <<1>>)

\* s * 10^(k-n) reads back as x
ReadsBack(x, k, n, s) == DecimalToDouble(x.neg, s, k - n) = x

\* the digits of s and the exponent they stand at: s = 10^n is the digit 1
\* one place higher
DigitsAt(k, n, s) ==
    With(LAMBDA d : IF Len(d) > n THEN [digits |-> SubSeq(d, 1, n), k |-> k + 1]
                    ELSE [digits |-> d, k |-> k],
         BigDigits(s))

\* the n digits s and the exponent k with s * 10^(k-n) = x as Number values,
\* for the least n: of the two integers next to x / 10^(k-n) the nearer one
\* that reads back as x
RECURSIVE ShortestDigits(_, _, _)
ChooseDigits(x, k, n, d, den) ==
    With2(LAMBDA near, far :
              IF d.r = <<>> \/ ReadsBack(x, k, n, near) THEN DigitsAt(k, n, near)
              ELSE IF ReadsBack(x, k, n, far) THEN DigitsAt(k, n, far)
              ELSE ShortestDigits(x, k, n + 1),
          Nearer(d, den), Farther(d, den))

ShortestDigits(x, k, n) ==
    With(LAMBDA f : With(LAMBDA d : ChooseDigits(x, k, n, d, f.den), BigDiv(f.num, f.den)),
         Scaled(x, k - n))

\* the exponent part of a number in exponent notation
ExponentPart(k) ==
    IF k - 1 < 0 THEN <<"e", "-">> \o Digits(1 - k)
    ELSE <<"e", "+">> \o Digits(k - 1)

\* the digits d of a number below 10^k as Number::toString writes them
DigitsToString(d, k) ==
    CASE Len(d) <= k /\ k <= 21 -> d \o [i \in 1..(k - Len(d)) |-> "0"]
      [] 0 < k /\ k < Len(d)    -> SubSeq(d, 1, k) \o <<".">> \o SubSeq(d, k + 1, Len(d))
      [] -6 < k /\ k <= 0       -> <<"0", ".">> \o [i \in 1..(0 - k) |-> "0"] \o d
      [] OTHER                  ->
           IF Len(d) = 1 THEN d \o ExponentPart(k)
           ELSE <<d[1], ".">> \o SubSeq(d, 2, Len(d)) \o ExponentPart(k)

\* Number.prototype.toString, as a template literal prints a number
NumberToString(number) ==
    With(LAMBDA x :
             CASE x.k = "NaN"      -> <<"N","a","N">>
               [] x.k = "Infinity" ->
                    (IF x.neg THEN <<"-">> ELSE <<>>)
                        \o <<"I","n","f","i","n","i","t","y">>
               [] IsZero(x)        -> <<"0">>
               [] OTHER            ->
                    (IF x.neg THEN <<"-">> ELSE <<>>)
                        \o With(LAMBDA s : DigitsToString(s.digits, s.k),
                                With(LAMBDA k : ShortestDigits(x, k, 1),
                                     DecimalExponent(x, 1))),
         number)

\* the integer n for which n / 1000 is nearest to the exact value of x, the
\* larger one at a tie, in four digits or more
Thousandths(x) ==
    With(LAMBDA f :
             ZeroPad(BigDigits(BigDiv(BigAdd(BigMulSmall(f.num, 2), f.den),
                                      BigMulSmall(f.den, 2)).q), 4),
         Scaled(x, 0 - 3))

\* a string with a point before its last three characters
PointBeforeLast3(d) ==
    SubSeq(d, 1, Len(d) - 3) \o <<".">> \o SubSeq(d, Len(d) - 2, Len(d))

\* Number.prototype.toFixed(3): three decimals, the nearest thousandth; a
\* number from 10^21 on is printed as toString prints it
toFixed3(number) ==
    With(LAMBDA x :
             IF x.k # "finite" \/ ~BelowPow10(x, 21) THEN NumberToString(x)
             ELSE (IF x.neg /\ ~IsZero(x) THEN <<"-">> ELSE <<>>)
                      \o With(LAMBDA d : PointBeforeLast3(d), Thousandths(x)),
         number)

(***************************************************************************)
(* Value formatters.                                                       *)
(***************************************************************************)
HexChars == Range(DigitChars) \cup {"a","b","c","d","e","f","A","B","C","D","E","F"}

\* /^#[0-9A-Fa-f]{8}$/.test(value), on the string the value converts to
IsHex8(s) ==
    /\ Len(s) = 9
    /\ s[1] = "#"
    /\ \A i \in 2..Len(s) : s[i] \in HexChars

\* the conversion, had the pattern been /^#[0-9a-f]{8}$/
convertColorFormatLowerCase(value) ==
    LET s == ToStringJS(value)
    IN  IF /\ value.t \in {"undefined", "string", "number", "boolean"}
           /\ IsHex8(s)
           /\ \A i \in 2..Len(s) : s[i] \notin Range(UpperLetters)
        THEN <<"#">> \o SubSeq(s, 8, 9) \o SubSeq(s, 2, 7)
        ELSE s

\* #rrggbbaa becomes #aarrggbb (slice(7, 9) then slice(1, 7)); any other
\* value is returned as it is and printed by the template
convertColorFormat(value) ==
    LET s == ToStringJS(value)
    IN  IF value.t \in {"undefined", "string", "number", "boolean"} /\ IsHex8(s)
        THEN <<"#">> \o SubSeq(s, 8, 9) \o SubSeq(s, 2, 7)
        ELSE s

Sixteen == <<"1", "6">>

parseDimension(value) ==
    IF value.t # "string" \/ ~endsWith(value.s, px)
    THEN Sixteen
    ELSE removeFirst(value.s, px)

parseLetterSpacing(letterSpacing, fontSize) ==
    IF letterSpacing.t = "string" /\ endsWith(letterSpacing.s, <<"%">>)
    THEN LET percentage      == Over(parseFloat(letterSpacing.s), Literal(100))
             letterSpacingEm == Times(percentage, fontSize)
         IN  MathRound(Times(Over(letterSpacingEm, fontSize), Literal(1000)))
    ELSE IF letterSpacing.t = "string" /\ endsWith(letterSpacing.s, px)
    THEN LET letterSpacingPx == parseFloat(letterSpacing.s)
         IN  MathRound(Times(Over(letterSpacingPx, fontSize), Literal(1000)))
    ELSE Literal(0)

Regular == <<"R","e","g","u","l","a","r">>

\* the names at 100, 200, ..., 900
validFontWeights ==
    << <<"T","h","i","n">>,
       <<"E","x","t","r","a","L","i","g","h","t">>,
       <<"L","i","g","h","t">>,
       Regular,
       <<"M","e","d","i","u","m">>,
       <<"S","e","m","i","B","o","l","d">>,
       <<"B","o","l","d">>,
       <<"E","x","t","r","a","B","o","l","d">>,
       <<"B","l","a","c","k">> >>

\* weight.replace(/\s/g, '').charAt(0).toUpperCase()
\*   + weight.replace(/\s/g, '').slice(1).toLowerCase()
normalizedWeight(weight) ==
    LET stripped == stripWhitespace(weight)
    IN  IF stripped = <<>> THEN <<>>
        ELSE <<UpperChar(Head(stripped))>> \o toLowerCase(Tail(stripped))

\* the name, had the string been looked up as it is:
\* validFontWeights.includes(weight)
weightNameAsWritten(weight) ==
    IF weight.t = "string"
    THEN IF weight.s \in Range(validFontWeights)
         THEN weight.s
         ELSE Regular
    ELSE IF /\ weight.t = "number"
            /\ weight.n % 100 = 0
            /\ (weight.n \div 100) \in DOMAIN validFontWeights
         THEN validFontWeights[weight.n \div 100]
         ELSE Regular

weightName(weight) ==
    IF weight.t = "string"
    THEN IF normalizedWeight(weight.s) \in Range(validFontWeights)
         THEN normalizedWeight(weight.s)
         ELSE Regular
    ELSE IF /\ weight.t = "number"
            /\ weight.n % 100 = 0
            /\ (weight.n \div 100) \in DOMAIN validFontWeights
         THEN validFontWeights[weight.n \div 100]
         ELSE Regular

convertFontWeightToFontFamily(fontFamily, weight) ==
    ToStringJS(fontFamily) \o weightName(weight)

None == <<"N","o","n","e">>

\* textCase is a string here: textCase.toUpperCase() raises on anything else
convertTextCase(textCase) ==
    CASE toUpperCase(textCase) = <<"U","P","P","E","R","C","A","S","E">> ->
             <<"U","p","p","e","r">>
      [] toUpperCase(textCase) = <<"L","O","W","E","R","C","A","S","E">> ->
             <<"L","o","w","e","r">>
      [] toUpperCase(textCase) = <<"C","A","P","I","T","A","L","I","Z","E">> ->
             <<"C","a","p","i","t","a","l","i","z","e">>
      [] OTHER -> None

\* textDecoration is a string here, as for convertTextCase
convertTextDecorationCaseSensitive(textDecoration) ==
    CASE textDecoration = <<"U","N","D","E","R","L","I","N","E">> ->
             <<"U","n","d","e","r","l","i","n","e">>
      [] textDecoration = <<"L","I","N","E","-","T","H","R","O","U","G","H">> ->
             <<"S","t","r","i","k","e","t","h","r","o","u","g","h">>
      [] textDecoration = <<"O","V","E","R","L","I","N","E">> ->
             <<"O","v","e","r","l","i","n","e">>
      [] OTHER -> None

convertTextDecoration(textDecoration) ==
    CASE toUpperCase(textDecoration) = <<"U","N","D","E","R","L","I","N","E">> ->
             <<"U","n","d","e","r","l","i","n","e">>
      [] toUpperCase(textDecoration) = <<"L","I","N","E","-","T","H","R","O","U","G","H">> ->
             <<"S","t","r","i","k","e","t","h","r","o","u","g","h">>
      [] toUpperCase(textDecoration) = <<"O","V","E","R","L","I","N","E">> ->
             <<"O","v","e","r","l","i","n","e">>
      [] OTHER -> None

(***************************************************************************)
(* Token converter.  A conversion either returns its markup, as the        *)
(* sequence of the elements and comments it writes, or raises.             *)
(***************************************************************************)
Returned(xaml) == [raised |-> FALSE, xaml |-> xaml]

Raised == [raised |-> TRUE, xaml |-> <<>>]

\* obj.name of a JavaScript object; a missing property reads as undefined
Field(obj, name) == IF name \in DOMAIN obj.f THEN obj.f[name] ELSE Undefined

\* value.fontSize.replace, value.lineHeight.replace and the toUpperCase of
\* convertTextCase and convertTextDecoration are calls on the leaf value:
\* they raise a TypeError unless the leaf is a string
TypographyRaises(value) ==
    \/ value.t = "undefined"
    \/ /\ value.t # "undefined"
       /\ LET leaf(name) == IF value.t = "object" THEN Field(value, name) ELSE Undefined
          IN  \/ leaf("fontSize").t # "string"
              \/ leaf("lineHeight").t # "string"
              \/ /\ leaf("textDecoration") # Str(<<"N","O","N","E">>)
                 /\ leaf("textDecoration").t # "string"
              \/ leaf("textCase").t # "string"

convertTypographyToXAML(token, value) ==
    IF TypographyRaises(value) THEN Raised
    ELSE LET fontSizePx == parseFloat(removeFirst(Field(value, "fontSize").s, px))
         IN  Returned(<<
               [el               |-> "Style",
                key              |-> ToStringJS(token.id),
                FontFamily       |-> convertFontWeightToFontFamily(
                                         Field(value, "fontFamily"),
                                         Field(value, "fontWeight")),
                FontSize         |-> parseDimension(Field(value, "fontSize")),
                LineHeight       |-> toFixed3(Over(
                                         parseFloat(removeFirst(Field(value, "lineHeight").s, px)),
                                         Literal(16))),
                CharacterSpacing |-> NumberToString(
                                         parseLetterSpacing(Field(value, "letterSpacing"),
                                                            fontSizePx)),
                TextDecorations  |-> IF Field(value, "textDecoration") = Str(<<"N","O","N","E">>)
                                     THEN None
                                     ELSE convertTextDecoration(Field(value, "textDecoration").s),
                TextTransform    |-> convertTextCase(Field(value, "textCase").s)] >>)

\* value.length, value.some and value.forEach need an array;
\* shadow.spread.replace needs a string in every layer
ShadowRaises(value) ==
    \/ value.t # "array"
    \/ /\ value.t = "array"
       /\ \E i \in DOMAIN value.items :
              \/ value.items[i].t # "object"
              \/ /\ value.items[i].t = "object"
                 /\ Field(value.items[i], "spread").t # "string"

\* Margin="${margin},${margin},${margin},${margin}"
FourSides(m) == m \o <<",">> \o m \o <<",">> \o m \o <<",">> \o m

\* the layer, had its key been numbered from 0: `${token.id}-${index}`
ShadowLayerFromZero(token, value, index) ==
    LET shadow      == value.items[index + 1]
        shadowCount == Len(value.items)
        key         == IF shadowCount > 1
                       THEN ToStringJS(token.id) \o <<"-">> \o Digits(index)
                       ELSE ToStringJS(token.id)
        margin      == parseFloat(removeFirst(Field(shadow, "spread").s, px))
    IN  << [el     |-> "Shadow",
            key    |-> key,
            Brush  |-> ToStringJS(Field(shadow, "color")),
            Radius |-> parseDimension(Field(shadow, "blur")),
            Offset |-> parseDimension(Field(shadow, "offsetX")) \o <<",">>
                       \o parseDimension(Field(shadow, "offsetY"))] >>
        \o (IF ~Truthy(Field(shadow, "inset"))
            THEN << [el     |-> "comment",
                     kind   |-> "Frame for drop shadow",
                     key    |-> key,
                     Margin |-> FourSides(NumberToString(margin))] >>
            ELSE <<>>)

\* what value.forEach pushes for the layer at `index` (counted from 0)
ShadowLayer(token, value, index) ==
    LET shadow      == value.items[index + 1]
        shadowCount == Len(value.items)
        key         == IF shadowCount > 1
                       THEN ToStringJS(token.id) \o <<"-">> \o Digits(index + 1)
                       ELSE ToStringJS(token.id)
        margin      == parseFloat(removeFirst(Field(shadow, "spread").s, px))
    IN  << [el     |-> "Shadow",
            key    |-> key,
            Brush  |-> ToStringJS(Field(shadow, "color")),
            Radius |-> parseDimension(Field(shadow, "blur")),
            Offset |-> parseDimension(Field(shadow, "offsetX")) \o <<",">>
                       \o parseDimension(Field(shadow, "offsetY"))] >>
        \o (IF ~Truthy(Field(shadow, "inset"))
            THEN << [el     |-> "comment",
                     kind   |-> "Frame for drop shadow",
                     key    |-> key,
                     Margin |-> FourSides(NumberToString(margin))] >>
            ELSE <<>>)

RECURSIVE ShadowLayers(_, _, _)
ShadowLayers(token, value, index) ==
    IF index >= Len(value.items) THEN <<>>
    ELSE ShadowLayer(token, value, index) \o ShadowLayers(token, value, index + 1)

\* convertShadowToMAUI, had the group been an inset group only when every
\* layer is inset
convertShadowToMAUIEvery(token, value) ==
    IF ShadowRaises(value) THEN Raised
    ELSE LET isInsetGroup ==
                 \A i \in DOMAIN value.items : Truthy(Field(value.items[i], "inset"))
         IN  Returned(
               << [el   |-> "comment",
                   kind |-> IF isInsetGroup THEN "Inset shadows" ELSE "Drop shadows",
                   key  |-> ToStringJS(token.id)] >>
               \o ShadowLayers(token, value, 0))

convertShadowToMAUI(token, value) ==
    IF ShadowRaises(value) THEN Raised
    ELSE LET isInsetGroup ==
                 \E i \in DOMAIN value.items : Truthy(Field(value.items[i], "inset"))
         IN  Returned(
               << [el   |-> "comment",
                   kind |-> IF isInsetGroup THEN "Inset shadows" ELSE "Drop shadows",
                   key  |-> ToStringJS(token.id)] >>
               \o ShadowLayers(token, value, 0))

\* no mode: convertTokenToMAUI(token) is called with `mode` left at null
NoMode == ""

\* token.$extensions.mode[mode]
ModeEntry(token, mode) ==
    IF /\ token.extensions.t = "object"
       /\ token.extensions.mode.t = "object"
       /\ \E i \in DOMAIN token.extensions.mode.entries :
              token.extensions.mode.entries[i].name = mode
    THEN LET i == CHOOSE i \in DOMAIN token.extensions.mode.entries :
                      token.extensions.mode.entries[i].name = mode
         IN  token.extensions.mode.entries[i].value
    ELSE Undefined

color == <<"c","o","l","o","r">>

dimension == <<"d","i","m","e","n","s","i","o","n">>

shadow == <<"s","h","a","d","o","w">>

typography == <<"t","y","p","o","g","r","a","p","h","y">>

\* the conversion, had the switch a default case that throws
convertTokenToMAUIStrict(token, mode) ==
    LET value == IF mode # NoMode /\ Truthy(ModeEntry(token, mode))
                 THEN ModeEntry(token, mode)
                 ELSE token.value
    IN  CASE token.type = Str(color) ->
                 Returned(<< [el   |-> "Color",
                              key  |-> ToStringJS(token.id),
                              text |-> convertColorFormat(value)] >>)
          [] token.type = Str(dimension) ->
                 Returned(<< [el   |-> "x:Double",
                              key  |-> ToStringJS(token.id),
                              text |-> parseDimension(value)] >>)
          [] token.type = Str(shadow) -> convertShadowToMAUI(token, value)
          [] token.type = Str(typography) -> convertTypographyToXAML(token, value)
          [] OTHER -> Raised

convertTokenToMAUI(token, mode) ==
    LET value == IF mode # NoMode /\ Truthy(ModeEntry(token, mode))
                 THEN ModeEntry(token, mode)
                 ELSE token.value
    IN  CASE token.type = Str(color) ->
                 Returned(<< [el   |-> "Color",
                              key  |-> ToStringJS(token.id),
                              text |-> convertColorFormat(value)] >>)
          [] token.type = Str(dimension) ->
                 Returned(<< [el   |-> "x:Double",
                              key  |-> ToStringJS(token.id),
                              text |-> parseDimension(value)] >>)
          [] token.type = Str(shadow) -> convertShadowToMAUI(token, value)
          [] token.type = Str(typography) -> convertTypographyToXAML(token, value)
          [] OTHER -> Returned(<<>>)

(***************************************************************************)
(* Grouping and filtering.  h is the heap, tokens a sequence of            *)
(* references into it.  A group list is what Object.entries gives for the  *)
(* accumulator object: the groups in the order their keys were first set   *)
(* (keys that are names of Object.prototype are outside the model).        *)
(***************************************************************************)
RECURSIVE Concat(_)
Concat(seqs) == IF seqs = <<>> THEN <<>> ELSE Head(seqs) \o Concat(Tail(seqs))

\* regexPatterns.some(regex => regex.test(token.id))
isExcluded(regexps, token) ==
    \E i \in DOMAIN regexps : test(regexps[i], ToStringJS(token.id))

\* Object.keys(token.$extensions.mode), when token.$extensions.mode is there
ModeKeys(token) ==
    IF token.extensions.t = "object" /\ token.extensions.mode.t = "object"
    THEN [i \in DOMAIN token.extensions.mode.entries |->
              token.extensions.mode.entries[i].name]
    ELSE <<>>

\* Set.prototype.add of each name, in order
RECURSIVE AddAll(_, _)
AddAll(modeSet, names) ==
    IF names = <<>> THEN modeSet
    ELSE AddAll(IF Head(names) \in Range(modeSet) THEN modeSet
                ELSE Append(modeSet, Head(names)),
                Tail(names))

RECURSIVE detectAllModesFrom(_, _, _)
detectAllModesFrom(h, tokensLeft, modeSet) ==
    IF tokensLeft = <<>> THEN modeSet
    ELSE detectAllModesFrom(h, Tail(tokensLeft),
                            AddAll(modeSet, ModeKeys(h[Head(tokensLeft)])))

detectAllModes(h, toks) == detectAllModesFrom(h, toks, <<>>)

\* the push, had it started the group anew each time: acc[name] = [ref]
PushAnew(acc, name, ref) ==
    IF \E i \in DOMAIN acc : acc[i].name = name
    THEN [i \in DOMAIN acc |->
              IF acc[i].name = name
              THEN [acc[i] EXCEPT !.tokens = <<ref>>]
              ELSE acc[i]]
    ELSE Append(acc, [name |-> name, tokens |-> <<ref>>])

\* if (!acc[name]) acc[name] = []; acc[name].push(ref)
Push(acc, name, ref) ==
    IF \E i \in DOMAIN acc : acc[i].name = name
    THEN [i \in DOMAIN acc |->
              IF acc[i].name = name
              THEN [acc[i] EXCEPT !.tokens = Append(@, ref)]
              ELSE acc[i]]
    ELSE Append(acc, [name |-> name, tokens |-> <<ref>>])

RECURSIVE groupTokensByTypeFrom(_, _, _)
groupTokensByTypeFrom(h, tokensLeft, acc) ==
    IF tokensLeft = <<>> THEN acc
    ELSE groupTokensByTypeFrom(h, Tail(tokensLeft),
                               Push(acc, ToStringJS(h[Head(tokensLeft)].type),
                                    Head(tokensLeft)))

groupTokensByType(h, toks) == groupTokensByTypeFrom(h, toks, <<>>)

\* the mode token, had it been made by writing to the token:
\* token.$value = value
modeTokenInPlace(h, ref, value) ==
    [heap |-> [h EXCEPT ![ref].value = value], ref |-> ref]

\* { ...token, $value: value }: a new object, the source object untouched
modeToken(h, ref, value) ==
    [heap |-> Append(h, [h[ref] EXCEPT !.value = value]), ref |-> Len(h) + 1]

\* the filter, had it left the exclusion patterns out
hasModeOverrideUnfiltered(h, ref, mode, regexps) ==
    /\ h[ref].extensions.t = "object"
    /\ h[ref].extensions.mode.t = "object"
    /\ Truthy(ModeEntry(h[ref], mode))

\* the filter of groupTokensByCollectionAndMode
hasModeOverride(h, ref, mode, regexps) ==
    /\ h[ref].extensions.t = "object"
    /\ h[ref].extensions.mode.t = "object"
    /\ Truthy(ModeEntry(h[ref], mode))
    /\ ~isExcluded(regexps, h[ref])

\* the reduce of groupTokensByCollectionAndMode:
\* token.$extensions.figma.collection.name raises when figma is missing
RECURSIVE reduceByCollection(_, _, _, _)
reduceByCollection(h, tokensLeft, mode, acc) ==
    IF tokensLeft = <<>> THEN [heap |-> h, raised |-> FALSE, groups |-> acc]
    ELSE LET token == h[Head(tokensLeft)]
         IN  IF token.extensions.figma.t # "object"
             THEN [heap |-> h, raised |-> TRUE, groups |-> acc]
             ELSE LET copy == modeToken(h, Head(tokensLeft), ModeEntry(token, mode))
                  IN  reduceByCollection(copy.heap, Tail(tokensLeft), mode,
                          Push(acc, token.extensions.figma.collection.name, copy.ref))

groupTokensByCollectionAndMode(h, toks, mode, regexps) ==
    reduceByCollection(
        h,
        SelectSeq(toks, LAMBDA ref : hasModeOverride(h, ref, mode, regexps)),
        mode,
        <<>>)

(***************************************************************************)
(* Document assembler.                                                     *)
(***************************************************************************)
\* tokens.map(token => convertTokenToMAUI(token)).join("")
convertAll(h, refs) ==
    With(LAMBDA converted :
             IF \E i \in DOMAIN converted : converted[i].raised THEN Raised
             ELSE Returned(Concat([i \in DOMAIN converted |-> converted[i].xaml])),
         [i \in DOMAIN refs |-> convertTokenToMAUI(h[refs[i]], NoMode)])

\* the base document, had it written a section per token in input order
\* instead of a section per type group
createResourceDictionaryUngrouped(h, toks, regexps) ==
    With(LAMBDA filteredTokens :
        With(LAMBDA sections :
            IF \E i \in DOMAIN sections : sections[i].raised THEN Raised
            ELSE Returned(
                   << [el |-> "ResourceDictionary", layout |-> "base"] >>
                   \o Concat([i \in DOMAIN filteredTokens |->
                         << [el   |-> "comment",
                             kind |-> "Tokens",
                             type |-> toUpperCase(ToStringJS(h[filteredTokens[i]].type))] >>
                         \o sections[i].xaml])
                   \o << [el |-> "/ResourceDictionary", layout |-> "base"] >>),
            [i \in DOMAIN filteredTokens |-> convertAll(h, <<filteredTokens[i]>>)]),
        SelectSeq(toks, LAMBDA ref : ~isExcluded(regexps, h[ref])))

createResourceDictionary(h, toks, regexps) ==
    With(LAMBDA groupedTokens :
        With(LAMBDA sections :
            IF \E i \in DOMAIN sections : sections[i].raised THEN Raised
            ELSE Returned(
                   << [el |-> "ResourceDictionary", layout |-> "base"] >>
                   \o Concat([i \in DOMAIN groupedTokens |->
                         << [el   |-> "comment",
                             kind |-> "Tokens",
                             type |-> toUpperCase(groupedTokens[i].name)] >>
                         \o sections[i].xaml])
                   \o << [el |-> "/ResourceDictionary", layout |-> "base"] >>),
            [i \in DOMAIN groupedTokens |-> convertAll(h, groupedTokens[i].tokens)]),
        groupTokensByType(h, SelectSeq(toks, LAMBDA ref : ~isExcluded(regexps, h[ref]))))

createResourceDictionaryForMode(h, toks, regexps, mode, outputDirectory) ==
    With(LAMBDA grouped :
        With(LAMBDA converted :
            IF grouped.raised \/ \E i \in DOMAIN converted : converted[i].raised
            THEN [heap |-> grouped.heap, raised |-> TRUE, outputs |-> <<>>]
            ELSE [heap    |-> grouped.heap,
                  raised  |-> FALSE,
                  outputs |-> [i \in DOMAIN grouped.groups |->
                      [filename |-> outputDirectory \o "/theme." \o grouped.groups[i].name
                                    \o "." \o mode \o ".xaml",
                       contents |-> << [el |-> "ResourceDictionary", layout |-> "mode"] >>
                                    \o converted[i].xaml
                                    \o << [el |-> "/ResourceDictionary", layout |-> "mode"] >>]]],
            [i \in DOMAIN grouped.groups |->
                 convertAll(grouped.heap, grouped.groups[i].tokens)]),
        groupTokensByCollectionAndMode(h, toks, mode, regexps))

(***************************************************************************)
(* The plugin object and its build, one action per step of build.          *)
(***************************************************************************)
Path(p) == [t |-> "string", path |-> p]

\* const { excludePatterns = [], outputDirectory = "./" } = options
excludePatterns == 
    IF options.excludePatterns.t = "undefined" THEN Arr(<<>>) ELSE options.excludePatterns

outputDirectory ==
    IF options.outputDirectory.t = "undefined" THEN Path("./") ELSE options.outputDirectory

Error(name, message, pattern) == [name |-> name, message |-> message, pattern |-> pattern]

NoError == Error("", "", <<>>)

Pending == [status |-> "pending", outputs |-> <<>>, error |-> NoError]

Fulfilled(records) == [status |-> "fulfilled", outputs |-> records, error |-> NoError]

Rejected(error) == [status |-> "rejected", outputs |-> <<>>, error |-> error]

TypeError == Error("TypeError", "", <<>>)

InvalidRegex(pattern) == Error("Error", "Invalid regex pattern: ", pattern)

ModeFailed(mode) ==
    Error("Error",
          "Failed to create resource dictionary for mode " \o mode
              \o " due to an internal error.",
          <<>>)

BuildFailed == Error("Error", "Failed to build themes due to an internal error.", <<>>)

\* the catch of build, had it returned the records pushed so far
catchInBuildReturning(logged, cause) ==
    /\ console' = console \o logged
                  \o << [label |-> "Error in build process:", error |-> cause] >>
    /\ result' = Fulfilled(outputs)
    /\ pc' = "done"

\* the catch of build: the cause goes to the console, a new error to the caller
catchInBuild(logged, cause) ==
    /\ console' = console \o logged
                  \o << [label |-> "Error in build process:", error |-> cause] >>
    /\ result' = Rejected(BuildFailed)
    /\ pc' = "done"

\* pluginMAUI(options): the options are validated when the plugin is made
pluginMAUI ==
    /\ pc = "new"
    /\ pc' = IF excludePatterns.t = "array" /\ outputDirectory.t = "string"
             THEN "ready"
             ELSE "invalid options"
    /\ UNCHANGED <<heap, tokens, options, allModes, regexPatterns, outputs,
                   modeIndex, result, console, run, previous, groupsByType,
          argument, returned,
                   disk, data, filteredContent>>

\* build is entered: if (!Array.isArray(tokens)) throw, outside the try
buildEnter ==
    /\ pc = "ready"
    /\ IF tokens.t # "array"
       THEN /\ result' = Rejected(Error("Error", "Invalid input: 'tokens' must be an array.", <<>>))
            /\ pc' = "done"
       ELSE /\ result' = result
            /\ pc' = "try"
    /\ UNCHANGED <<heap, tokens, options, allModes, regexPatterns, outputs,
                   modeIndex, console, run, previous, groupsByType, argument, returned,
                   disk, data, filteredContent>>

\* the first pattern that new RegExp rejects
firstInvalid(patterns) ==
    patterns[Min({i \in DOMAIN patterns : RegExpSyntaxError(patterns[i])})]

\* allModes and regexPatterns are computed
buildPrepare ==
    /\ pc = "try"
    /\ allModes' = detectAllModes(heap, tokens.items)
    /\ IF \E i \in DOMAIN excludePatterns.items : RegExpSyntaxError(excludePatterns.items[i])
       THEN /\ catchInBuild(<<>>, InvalidRegex(firstInvalid(excludePatterns.items)))
            /\ UNCHANGED regexPatterns
       ELSE /\ regexPatterns' = [i \in DOMAIN excludePatterns.items |->
                                     RegExp(excludePatterns.items[i])]
            /\ pc' = "base"
            /\ UNCHANGED <<result, console>>
    /\ UNCHANGED <<heap, tokens, options, outputs, modeIndex, run, previous, groupsByType, argument, returned,
                   disk, data, filteredContent>>

\* the base document, had outputs been an array of the plugin object that
\* every invocation pushes to
buildBaseSharedOutputs ==
    /\ pc = "base"
    /\ \E baseContent \in {createResourceDictionary(heap, tokens.items, regexPatterns)} :
           IF baseContent.raised
           THEN /\ catchInBuild(<<>>, TypeError)
                /\ UNCHANGED <<outputs, modeIndex>>
           ELSE /\ outputs' = Append(outputs,
                                     [filename |-> outputDirectory.path \o "/theme.xaml",
                                      contents |-> baseContent.xaml])
                /\ modeIndex' = 1
                /\ pc' = "modes"
                /\ UNCHANGED <<result, console>>
    /\ UNCHANGED <<heap, tokens, options, allModes, regexPatterns, run, previous,
                   groupsByType, argument, returned,
                   disk, data, filteredContent>>

\* the base document becomes the first record of outputs
buildBase ==
    /\ pc = "base"
    /\ \E baseContent \in {createResourceDictionary(heap, tokens.items, regexPatterns)} :
           IF baseContent.raised
           THEN /\ catchInBuild(<<>>, TypeError)
                /\ UNCHANGED <<outputs, modeIndex>>
           ELSE /\ outputs' = << [filename |-> outputDirectory.path \o "/theme.xaml",
                                  contents |-> baseContent.xaml] >>
                /\ modeIndex' = 1
                /\ pc' = "modes"
                /\ UNCHANGED <<result, console>>
    /\ UNCHANGED <<heap, tokens, options, allModes, regexPatterns, run, previous, groupsByType, argument, returned,
                   disk, data, filteredContent>>

\* one turn of allModes.forEach: the documents of a mode are pushed
buildMode ==
    /\ pc = "modes"
    /\ modeIndex <= Len(allModes)
    /\ \E mode \in {allModes[modeIndex]} :
       \E modeOutputs \in {createResourceDictionaryForMode(
                               heap, tokens.items, regexPatterns, mode, outputDirectory.path)} :
           /\ heap' = modeOutputs.heap
           /\ IF modeOutputs.raised
              THEN /\ catchInBuild(
                          << [label |-> "Error processing mode " \o mode \o ":",
                              error |-> TypeError] >>,
                          ModeFailed(mode))
                   /\ UNCHANGED <<outputs, modeIndex>>
              ELSE /\ outputs' = outputs \o modeOutputs.outputs
                   /\ modeIndex' = modeIndex + 1
                   /\ UNCHANGED <<result, console, pc>>
    /\ UNCHANGED <<tokens, options, allModes, regexPatterns, run, previous, groupsByType, argument, returned,
                   disk, data, filteredContent>>

\* return outputs
buildReturn ==
    /\ pc = "modes"
    /\ modeIndex > Len(allModes)
    /\ result' = Fulfilled(outputs)
    /\ pc' = "done"
    /\ UNCHANGED <<heap, tokens, options, allModes, regexPatterns, outputs,
                   modeIndex, console, run, previous, groupsByType, argument, returned,
                   disk, data, filteredContent>>

\* the caller invokes build of the same plugin object again, with the same
\* argument; the locals of the finished invocation are dead
buildAgain ==
    /\ pc = "done"
    /\ run < 2
    /\ run' = run + 1
    /\ previous' = result
    /\ result' = Pending
    /\ pc' = "ready"
    /\ UNCHANGED <<heap, tokens, options, allModes, regexPatterns, outputs,
                   modeIndex, console, groupsByType, argument, returned,
                   disk, data, filteredContent>>

(***************************************************************************)
(* The inputs of the model.                                                *)
(***************************************************************************)
\* the id of the token at each position of the input: ids are unique
TokenIds ==
    << <<"c","b">>, <<"c","t">>, <<"a","t">>, <<"b","b">>, <<"a","c">>, <<"t","a">> >>

Hex8 == <<"#","1","0","2","0","3","0","4","0">>

Hex6 == <<"#","1","0","2","0","3","0">>

Black == <<"#","0","0","0","0","0","0">>

Modes(entries) == [t |-> "object", entries |-> entries]

Entry(name, value) == [name |-> name, value |-> value]

Figma(name) == [t |-> "object", collection |-> [name |-> name]]

Extensions(mode, figma) == [t |-> "object", mode |-> mode, figma |-> figma]

Typography ==
    [fontFamily     |-> Str(<<"I","n","t","e","r">>),
     fontWeight     |-> Num(700),
     fontSize       |-> Str(<<"1","6","p","x">>),
     lineHeight     |-> Str(<<"2","4","p","x">>),
     letterSpacing  |-> Str(<<"1","0","%">>),
     textDecoration |-> Str(<<"u","n","d","e","r","l","i","n","e">>),
     textCase       |-> Str(<<"u","p","p","e","r","c","a","s","e">>)]

\* a typography value with unknown leaves (each has a default) and no textCase
TypographyNoTextCase ==
    [fontFamily     |-> Str(<<"I","n","t","e","r">>),
     fontWeight     |-> Str(<<"h","e","a","v","y">>),
     fontSize       |-> Str(<<"1","6">>),
     lineHeight     |-> Str(<<"2","4","p","x">>),
     letterSpacing  |-> Num(2),
     textDecoration |-> Str(<<"N","O","N","E">>)]

\* the layer at position i: a drop shadow at the odd positions, an inset
\* shadow with a blur that is no string at the even ones
Layer(i) ==
    Obj([color   |-> Str(Hex8),
         blur    |-> IF i % 2 = 1 THEN Str(<<"4","p","x">>) ELSE Num(4),
         spread  |-> Str(<<"2","p","x">>),
         offsetX |-> Str(<<"0","p","x">>),
         offsetY |-> Str(<<"1","p","x">>),
         inset   |-> Bool(i % 2 = 0)])

LayerNoSpread ==
    Obj([color   |-> Str(Hex8),
         blur    |-> Str(<<"4","p","x">>),
         offsetX |-> Str(<<"0","p","x">>),
         offsetY |-> Str(<<"1","p","x">>),
         inset   |-> Bool(FALSE)])

Shape(type, value, extensions) ==
    [type |-> type, value |-> value, extensions |-> extensions]

TokenShapes ==
    { Shape(Str(color), Str(Hex8), Undefined),
      Shape(Str(color), Str(Hex6),
            Extensions(Modes(<<Entry("dark", Str(Black))>>), Figma("Base"))),
      Shape(Str(color), Str(Hex6),
            Extensions(Modes(<<Entry("light", Str(Hex8)), Entry("dark", Str(<<>>))>>),
                       Figma("Brand"))),
      Shape(Str(dimension), Str(<<"8","p","x">>),
            Extensions(Modes(<<Entry("dark", Str(<<"4","p","x">>))>>), Figma("Brand"))),
      Shape(Str(dimension), Num(8),
            Extensions(Modes(<<Entry("dark", Str(<<"4","p","x">>))>>), Undefined)),
      Shape(Str(typography), Obj(Typography), Undefined),
      Shape(Str(typography), Obj(TypographyNoTextCase), Undefined),
      Shape(Str(shadow), Arr(<<LayerNoSpread>>), Undefined),
      Shape(Undefined, Num(4), Undefined),
      Shape(Str(<<"n","u","m","b","e","r">>), Num(4),
            Extensions(Modes(<<Entry("dark", Num(2))>>), Figma("Brand"))) }
    \cup { Shape(Str(shadow), Arr([i \in 1..n |-> Layer(i)]), Undefined) : n \in 0..MaxLayers }

ExcludePatternLists ==
    { <<>>,
      << <<"^","c">> >>,
      << <<"b">> >>,
      << <<"t","$">>, <<"^","a">> >>,
      << <<"b">>, <<"(">> >> }

\* pluginMAUI(): options = {}
NoOptions ==
    [excludePatterns |-> Undefined, outputDirectory |-> Undefined, filename |-> Undefined]

\* the options a caller passes; filename is the key the configuration of the
\* repository passes, which pluginMAUI does not read
OptionsUniverse ==
    { [excludePatterns |-> Arr(patterns), outputDirectory |-> Undefined,
       filename |-> Undefined] :
          patterns \in ExcludePatternLists }
    \cup { [excludePatterns |-> Undefined, outputDirectory |-> Path("/xaml"),
            filename |-> Undefined],
           [excludePatterns |-> Undefined, outputDirectory |-> Undefined,
            filename |-> Path("tokens.xaml")],
           [excludePatterns |-> Str(<<"^","c">>), outputDirectory |-> Undefined,
            filename |-> Undefined] }

Init ==
    /\ options \in OptionsUniverse
    /\ \/ /\ heap = <<>>
          /\ tokens = Undefined
       \/ \E n \in 0..MaxTokens :
              \E shapes \in [1..n -> TokenShapes] :
                  /\ heap = [i \in 1..n |->
                                 [id         |-> Str(TokenIds[i]),
                                  type       |-> shapes[i].type,
                                  value      |-> shapes[i].value,
                                  extensions |-> shapes[i].extensions]]
                  /\ tokens = Arr([i \in 1..n |-> i])
    /\ pc = "new"
    /\ allModes = <<>>
    /\ regexPatterns = <<>>
    /\ outputs = <<>>
    /\ modeIndex = 0
    /\ result = Pending
    /\ console = <<>>
    /\ run = 1
    /\ previous = Pending
    /\ groupsByType = <<>>
    /\ disk = Missing
    /\ data = Missing
    /\ filteredContent = Missing
    /\ argument = <<>>
    /\ returned = <<>>

Next ==
    \/ pluginMAUI
    \/ buildEnter
    \/ buildPrepare
    \/ buildBase
    \/ buildMode
    \/ buildReturn
    \/ buildAgain

Spec == Init /\ [][Next]_vars

(***************************************************************************)
(* groupTokensByType on its own: any collection of tokens, of the four     *)
(* recognized types, of another type or of no type, is grouped.            *)
(***************************************************************************)
TokenTypes ==
    { Str(color), Str(dimension), Str(shadow), Str(typography),
      Str(<<"n","u","m","b","e","r">>), Undefined }

GroupInit ==
    /\ \E n \in 0..MaxGrouped :
           \E types \in [1..n -> TokenTypes] :
               /\ heap = [i \in 1..n |->
                              [id         |-> Str(TokenIds[i]),
                               type       |-> types[i],
                               value      |-> Undefined,
                               extensions |-> Undefined]]
               /\ tokens = Arr([i \in 1..n |-> i])
    /\ options = NoOptions
    /\ pc = "group"
    /\ allModes = <<>>
    /\ regexPatterns = <<>>
    /\ outputs = <<>>
    /\ modeIndex = 0
    /\ result = Pending
    /\ console = <<>>
    /\ run = 1
    /\ previous = Pending
    /\ groupsByType = <<>>
    /\ disk = Missing
    /\ data = Missing
    /\ filteredContent = Missing
    /\ argument = <<>>
    /\ returned = <<>>

\* const groupedTokens = groupTokensByType(tokens)
group ==
    /\ pc = "group"
    /\ groupsByType' = groupTokensByType(heap, tokens.items)
    /\ pc' = "grouped"
    /\ UNCHANGED <<heap, tokens, options, allModes, regexPatterns, outputs,
                   modeIndex, result, console, run, previous, argument, returned,
                   disk, data, filteredContent>>

GroupSpec == GroupInit /\ [][group]_vars

(***************************************************************************)
(* createResourceDictionary on its own: the base document of any           *)
(* collection of tokens whose conversion returns, under valid patterns.    *)
(***************************************************************************)
DocumentShapes ==
    { Shape(Str(color), Str(Hex8), Undefined),
      Shape(Str(dimension), Str(<<"8","p","x">>), Undefined),
      Shape(Str(shadow), Arr(<<Layer(1)>>), Undefined),
      Shape(Str(<<"n","u","m","b","e","r">>), Num(4), Undefined),
      Shape(Undefined, Num(4), Undefined) }

DocumentPatternLists ==
    { <<>>,
      << <<"^","c","b">> >>,
      << <<"b">> >>,
      << <<"t","$">>, <<"^","a">> >> }

DocumentInit ==
    /\ \E n \in 0..MaxAssembled :
           \E shapes \in [1..n -> DocumentShapes] :
               /\ heap = [i \in 1..n |->
                              [id         |-> Str(TokenIds[i]),
                               type       |-> shapes[i].type,
                               value      |-> shapes[i].value,
                               extensions |-> shapes[i].extensions]]
               /\ tokens = Arr([i \in 1..n |-> i])
    /\ \E patterns \in DocumentPatternLists :
           /\ options = [NoOptions EXCEPT !.excludePatterns = Arr(patterns)]
           /\ regexPatterns = [i \in DOMAIN patterns |-> RegExp(patterns[i])]
    /\ pc = "assemble"
    /\ allModes = <<>>
    /\ outputs = <<>>
    /\ modeIndex = 0
    /\ result = Pending
    /\ console = <<>>
    /\ run = 1
    /\ previous = Pending
    /\ groupsByType = <<>>
    /\ disk = Missing
    /\ data = Missing
    /\ filteredContent = Missing
    /\ argument = <<>>
    /\ returned = <<>>

\* let baseContent = createResourceDictionary(tokens, regexPatterns, convertTokenToMAUI)
assemble ==
    /\ pc = "assemble"
    /\ returned' = createResourceDictionary(heap, tokens.items, regexPatterns)
    /\ pc' = "assembled"
    /\ UNCHANGED <<heap, tokens, options, allModes, regexPatterns, outputs,
                   modeIndex, result, console, run, previous, groupsByType, argument,
                   disk, data, filteredContent>>

DocumentSpec == DocumentInit /\ [][assemble]_vars

(***************************************************************************)
(* build on tokens whose mode names and collection names may hold a dot,   *)
(* the character that separates them in the name of a mode document.       *)
(***************************************************************************)
MaxNamed == 2

ModeNames == {"dark", "hc", "dark.hc"}

CollectionNames == {"ui", "ui.dark", "core"}

NamedShapes ==
    { Shape(Str(color), Str(Hex6),
            Extensions(Modes(<<Entry(mode, Str(Hex8))>>), Figma(collection))) :
          mode \in ModeNames, collection \in CollectionNames }
    \cup { Shape(Str(color), Str(Hex6),
                 Extensions(Modes(<<Entry("dark", Str(Hex8)), Entry("hc", Str(Black))>>),
                            Figma("ui"))),
           Shape(Str(color), Str(Hex8), Undefined) }

NamedInit ==
    /\ options \in { NoOptions,
                      [NoOptions EXCEPT !.outputDirectory = Path("/xaml")] }
    /\ \E n \in 0..MaxNamed :
           \E shapes \in [1..n -> NamedShapes] :
               /\ heap = [i \in 1..n |->
                              [id         |-> Str(TokenIds[i]),
                               type       |-> shapes[i].type,
                               value      |-> shapes[i].value,
                               extensions |-> shapes[i].extensions]]
               /\ tokens = Arr([i \in 1..n |-> i])
    /\ pc = "new"
    /\ allModes = <<>>
    /\ regexPatterns = <<>>
    /\ outputs = <<>>
    /\ modeIndex = 0
    /\ result = Pending
    /\ console = <<>>
    /\ run = 1
    /\ previous = Pending
    /\ groupsByType = <<>>
    /\ disk = Missing
    /\ data = Missing
    /\ filteredContent = Missing
    /\ argument = <<>>
    /\ returned = <<>>

NamedSpec == NamedInit /\ [][Next]_vars

(***************************************************************************)
(* createResourceDictionary on tokens whose ids are pairwise distinct and  *)
(* may end in a hyphen and a number, as the keys of shadow layers do.      *)
(***************************************************************************)
MaxKeyed == 3

KeyedIds ==
    { <<"s">>, <<"s","-","1">>, <<"s","-","2">>, <<"s","1">>, <<"c">> }

KeyedShapes ==
    { Shape(Str(color), Str(Hex8), Undefined),
      Shape(Str(dimension), Str(<<"8","p","x">>), Undefined),
      Shape(Str(typography), Obj(Typography), Undefined),
      Shape(Undefined, Num(4), Undefined) }
    \cup { Shape(Str(shadow), Arr([i \in 1..n |-> Layer(2 * i - 1)]), Undefined) :
               n \in 1..MaxLayers }

KeyedInit ==
    /\ \E n \in 0..MaxKeyed :
           \E ids \in [1..n -> KeyedIds], shapes \in [1..n -> KeyedShapes] :
               /\ \A i, j \in 1..n : ids[i] = ids[j] => i = j
               /\ heap = [i \in 1..n |->
                              [id         |-> Str(ids[i]),
                               type       |-> shapes[i].type,
                               value      |-> shapes[i].value,
                               extensions |-> shapes[i].extensions]]
               /\ tokens = Arr([i \in 1..n |-> i])
    /\ options = NoOptions
    /\ regexPatterns = <<>>
    /\ pc = "assemble"
    /\ allModes = <<>>
    /\ outputs = <<>>
    /\ modeIndex = 0
    /\ result = Pending
    /\ console = <<>>
    /\ run = 1
    /\ previous = Pending
    /\ groupsByType = <<>>
    /\ disk = Missing
    /\ data = Missing
    /\ filteredContent = Missing
    /\ argument = <<>>
    /\ returned = <<>>

KeyedSpec == KeyedInit /\ [][assemble]_vars

(***************************************************************************)
(* The value formatters on their own: each is called with one argument     *)
(* list drawn from the values a token file can hold.                       *)
(***************************************************************************)
\* the strings of length n over an alphabet
RECURSIVE StringsOfLength(_, _)
StringsOfLength(alphabet, n) ==
    IF n = 0 THEN {<<>>}
    ELSE {<<c>> \o rest : c \in alphabet, rest \in StringsOfLength(alphabet, n - 1)}

\* dimension values: short strings of digits, a point and the letters of
\* the unit, and values that are no strings
DimensionValues ==
    { Str(text) : text \in UNION {StringsOfLength({"8", ".", "p", "x", "a"}, n) : n \in 0..MaxChars} }
    \cup { Undefined, Num(8), Num(0), Bool(TRUE) }

\* color values: an optional # before up to MaxPairs pairs of characters,
\* hex digits of either case or not, and values that are no strings
ColorPairs == { <<"1","0">>, <<"F","f">>, <<"0","g">> }

ColorValues ==
    { Str(head \o Concat(pairs)) :
          head \in {<<>>, <<"#">>},
          pairs \in UNION {[1..n -> ColorPairs] : n \in 0..MaxPairs} }
    \cup { Undefined, Num(8) }

\* a name in the spellings a token file may use
Spellings(name) ==
    { name, toLowerCase(name), toUpperCase(name),
      <<" ">> \o toLowerCase(name) \o <<" ">>,
      SubSeq(name, 1, 1) \o <<" ">> \o SubSeq(name, 2, Len(name)) }

WeightValues ==
    { Num(n) : n \in {0, 50, 100, 200, 300, 400, 450, 500, 600, 700, 800, 900, 1000} }
    \cup { Str(text) : text \in UNION {Spellings(validFontWeights[i]) : i \in DOMAIN validFontWeights} }
    \cup { Str(<<"s","e","m","i"," ","b","o","l","d">>),
           Str(<<"n","o","n","s","e","n","s","e">>),
           Str(<<"7","0","0">>), Str(<<>>), Undefined, Bool(TRUE) }

DecorationValues ==
    { Str(text) : text \in UNION {Spellings(name) :
          name \in { <<"U","n","d","e","r","l","i","n","e">>,
                     <<"L","i","n","e","-","T","h","r","o","u","g","h">>,
                     <<"O","v","e","r","l","i","n","e">>,
                     <<"N","o","n","e">> }} }
    \cup { Str(<<"s","t","r","i","k","e","t","h","r","o","u","g","h">>),
           Str(<<"l","i","n","e","t","h","r","o","u","g","h">>),
           Str(<<"u","n","d","e","r","l","i","n","e","d">>),
           Str(<<>>) }

\* shadow layers: the inset flag set, not set or absent, and a spread in
\* whole or in half pixels
ShadowValues ==
    { Obj([Layer(1).f EXCEPT !.inset = Bool(inset), !.spread = Str(spread \o px)]) :
          inset \in BOOLEAN, spread \in {<<"2">>, <<"0">>, <<"1", ".", "5">>} }
    \cup { Obj([color   |-> Layer(1).f.color,
                blur    |-> Layer(1).f.blur,
                spread  |-> Str(<<"1", "2", "p", "x">>),
                offsetX |-> Layer(1).f.offsetX,
                offsetY |-> Layer(1).f.offsetY]) }

FormatCalls ==
    { [fn |-> "parseDimension", args |-> <<v>>] : v \in DimensionValues }
    \cup { [fn |-> "convertColorFormat", args |-> <<v>>] : v \in ColorValues }
    \cup { [fn |-> "convertFontWeightToFontFamily", args |-> <<family, v>>] :
               family \in {Str(<<"I","n","t","e","r">>), Str(<<>>)}, v \in WeightValues }
    \cup { [fn |-> "convertTypographyToXAML",
            args |-> << [id |-> Str(TokenIds[1])],
                        Obj([Typography EXCEPT !.textDecoration = v]) >>] :
               v \in DecorationValues }
    \cup { [fn |-> "convertShadowToMAUI",
            args |-> << [id |-> Str(TokenIds[1])], Arr(layers) >>] :
               layers \in UNION {[1..n -> ShadowValues] : n \in 1..MaxLayers} }

FormatInit ==
    /\ argument \in FormatCalls
    /\ returned = <<>>
    /\ pc = "call"
    /\ heap = <<>>
    /\ tokens = Undefined
    /\ options = NoOptions
    /\ allModes = <<>>
    /\ regexPatterns = <<>>
    /\ outputs = <<>>
    /\ modeIndex = 0
    /\ result = Pending
    /\ console = <<>>
    /\ run = 1
    /\ previous = Pending
    /\ groupsByType = <<>>
    /\ disk = Missing
    /\ data = Missing
    /\ filteredContent = Missing

\* parseDimension(value)
callParseDimension ==
    /\ pc = "call"
    /\ argument.fn = "parseDimension"
    /\ returned' = parseDimension(argument.args[1])
    /\ pc' = "returned"
    /\ UNCHANGED <<heap, tokens, options, allModes, regexPatterns, outputs,
                   modeIndex, result, console, run, previous, groupsByType, argument,
                   disk, data, filteredContent>>

\* convertColorFormat(value)
callConvertColorFormat ==
    /\ pc = "call"
    /\ argument.fn = "convertColorFormat"
    /\ returned' = convertColorFormat(argument.args[1])
    /\ pc' = "returned"
    /\ UNCHANGED <<heap, tokens, options, allModes, regexPatterns, outputs,
                   modeIndex, result, console, run, previous, groupsByType, argument,
                   disk, data, filteredContent>>

\* convertFontWeightToFontFamily(fontFamily, weight)
callConvertFontWeightToFontFamily ==
    /\ pc = "call"
    /\ argument.fn = "convertFontWeightToFontFamily"
    /\ returned' = convertFontWeightToFontFamily(argument.args[1], argument.args[2])
    /\ pc' = "returned"
    /\ UNCHANGED <<heap, tokens, options, allModes, regexPatterns, outputs,
                   modeIndex, result, console, run, previous, groupsByType, argument,
                   disk, data, filteredContent>>

\* convertTypographyToXAML(token, value)
callConvertTypographyToXAML ==
    /\ pc = "call"
    /\ argument.fn = "convertTypographyToXAML"
    /\ returned' = convertTypographyToXAML(argument.args[1], argument.args[2])
    /\ pc' = "returned"
    /\ UNCHANGED <<heap, tokens, options, allModes, regexPatterns, outputs,
                   modeIndex, result, console, run, previous, groupsByType, argument,
                   disk, data, filteredContent>>

\* convertShadowToMAUI(token, value)
callConvertShadowToMAUI ==
    /\ pc = "call"
    /\ argument.fn = "convertShadowToMAUI"
    /\ returned' = convertShadowToMAUI(argument.args[1], argument.args[2])
    /\ pc' = "returned"
    /\ UNCHANGED <<heap, tokens, options, allModes, regexPatterns, outputs,
                   modeIndex, result, console, run, previous, groupsByType, argument,
                   disk, data, filteredContent>>

FormatNext ==
    \/ callParseDimension
    \/ callConvertColorFormat
    \/ callConvertFontWeightToFontFamily
    \/ callConvertTypographyToXAML
    \/ callConvertShadowToMAUI

FormatSpec == FormatInit /\ [][FormatNext]_vars

(***************************************************************************)
(* parseLetterSpacing called on its own: a letter spacing in percent or in *)
(* pixels, or a value with neither unit, and a font size.                  *)
(***************************************************************************)
\* percentages with up to two decimals, those half way between two
\* thousandths among them
Percentages ==
    { <<whole, ".", tenths, hundredths>> :
          whole \in {"0", "1", "5", "8"},
          tenths \in {"0", "3", "4", "7"},
          hundredths \in {"0", "5"} }
    \cup { <<"1", "0">> }

\* font sizes in pixels
FontSizes == {1, 3, 5, 16}

\* the value of a sequence of decimal digits
RECURSIVE DigitsValue(_)
DigitsValue(d) ==
    IF d = <<>> THEN 0
    ELSE 10 * DigitsValue(SubSeq(d, 1, Len(d) - 1)) + (IndexIn(d[Len(d)], DigitChars) - 1)

\* a decimal numeral with at most two decimals, in hundredths
Hundredths(p) ==
    LET int  == DigitPrefix(p)
        frac == IF Len(p) > Len(int) THEN SubSeq(p, Len(int) + 2, Len(p)) ELSE <<>>
    IN  DigitsValue(int \o frac \o [i \in 1..(2 - Len(frac)) |-> "0"])

\* the decimal numeral of the pixels that are p percent of the font size f
PixelsOf(p, f) ==
    LET n == Hundredths(p) * f
    IN  Digits(n \div 10000) \o <<".">> \o ZeroPad(Digits(n % 10000), 4)

LetterSpacingCall(letterSpacing, f) ==
    [fn |-> "parseLetterSpacing", args |-> <<letterSpacing, Literal(f)>>]

LetterSpacingCalls ==
    { LetterSpacingCall(Str(p \o <<"%">>), f) : p \in Percentages, f \in FontSizes }
    \cup { LetterSpacingCall(Str(PixelsOf(p, f) \o px), f) : p \in Percentages, f \in FontSizes }
    \cup { LetterSpacingCall(v, f) :
               v \in {Str(<<"1", ".", "6", "e", "m">>), Str(<<"p", "x">>), Undefined},
               f \in FontSizes }

LetterSpacingInit ==
    /\ argument \in LetterSpacingCalls
    /\ returned = <<>>
    /\ pc = "call"
    /\ heap = <<>>
    /\ tokens = Undefined
    /\ options = NoOptions
    /\ allModes = <<>>
    /\ regexPatterns = <<>>
    /\ outputs = <<>>
    /\ modeIndex = 0
    /\ result = Pending
    /\ console = <<>>
    /\ run = 1
    /\ previous = Pending
    /\ groupsByType = <<>>
    /\ disk = Missing
    /\ data = Missing
    /\ filteredContent = Missing

\* parseLetterSpacing(letterSpacing, fontSize)
callParseLetterSpacing ==
    /\ pc = "call"
    /\ argument.fn = "parseLetterSpacing"
    /\ returned' = parseLetterSpacing(argument.args[1], argument.args[2])
    /\ pc' = "returned"
    /\ UNCHANGED <<heap, tokens, options, allModes, regexPatterns, outputs,
                   modeIndex, result, console, run, previous, groupsByType, argument,
                   disk, data, filteredContent>>

LetterSpacingSpec == LetterSpacingInit /\ [][callParseLetterSpacing]_vars

(***************************************************************************)
(* The post-processing script: processSCSSFile reads the stylesheet,       *)
(* drops the lines of the colorbase blocks and writes the rest back.       *)
(***************************************************************************)
ColorBase == <<"\"", "c", "o", "l", "o", "r", "b", "a", "s", "e">>

startsWith(s, prefix) ==
    /\ Len(prefix) <= Len(s)
    /\ SubSeq(s, 1, Len(prefix)) = prefix

\* String.prototype.trim, for the white space of the model (spaces)
RECURSIVE trim(_)
trim(s) ==
    IF s # <<>> /\ Head(s) = " " THEN trim(Tail(s))
    ELSE IF s # <<>> /\ s[Len(s)] = " " THEN trim(SubSeq(s, 1, Len(s) - 1))
    ELSE s

\* data.split('\n')
RECURSIVE split(_)
split(s) ==
    IF \A i \in DOMAIN s : s[i] # "\n" THEN <<s>>
    ELSE LET at == Min({i \in DOMAIN s : s[i] = "\n"})
         IN  <<SubSeq(s, 1, at - 1)>> \o split(SubSeq(s, at + 1, Len(s)))

\* filteredLines.join('\n')
RECURSIVE join(_)
join(pieces) ==
    IF pieces = <<>> THEN <<>>
    ELSE IF Len(pieces) = 1 THEN pieces[1]
    ELSE pieces[1] \o <<"\n">> \o join(Tail(pieces))

\* (line.match(/c/g) || []).length, for a character c
Matches(line, c) == Cardinality({i \in DOMAIN line : line[i] = c})

\* the loop over the lines, had it kept the line on which a block ends
RECURSIVE filterLinesKeepingEnd(_, _, _, _)
filterLinesKeepingEnd(lines, i, inColorBaseBlock, parenthesisCount) ==
    IF i > Len(lines) THEN <<>>
    ELSE LET line    == lines[i]
             inBlock == inColorBaseBlock \/ startsWith(trim(line), ColorBase)
             count   == parenthesisCount + Matches(line, "(") - Matches(line, ")")
         IN  IF inBlock /\ count # 0
             THEN filterLinesKeepingEnd(lines, i + 1, TRUE, count)
             ELSE <<line>> \o filterLinesKeepingEnd(lines, i + 1, FALSE,
                                  IF inBlock THEN count ELSE parenthesisCount)

\* the loop over the lines, had it tested the line as it is, not trimmed:
\* line.startsWith('"colorbase')
RECURSIVE filterLinesUntrimmed(_, _, _, _)
filterLinesUntrimmed(lines, i, inColorBaseBlock, parenthesisCount) ==
    IF i > Len(lines) THEN <<>>
    ELSE LET line    == lines[i]
             inBlock == inColorBaseBlock \/ startsWith(line, ColorBase)
             count   == parenthesisCount + Matches(line, "(") - Matches(line, ")")
         IN  IF inBlock
             THEN filterLinesUntrimmed(lines, i + 1, count # 0, count)
             ELSE <<line>> \o filterLinesUntrimmed(lines, i + 1, FALSE, parenthesisCount)

\* the loop over the lines, from line i on: the lines pushed to filteredLines
RECURSIVE filterLines(_, _, _, _)
filterLines(lines, i, inColorBaseBlock, parenthesisCount) ==
    IF i > Len(lines) THEN <<>>
    ELSE LET line    == lines[i]
             inBlock == inColorBaseBlock \/ startsWith(trim(line), ColorBase)
             count   == parenthesisCount + Matches(line, "(") - Matches(line, ")")
         IN  IF inBlock
             THEN filterLines(lines, i + 1, count # 0, count)
             ELSE <<line>> \o filterLines(lines, i + 1, FALSE, parenthesisCount)

\* the lines a stylesheet is made of in the model: a blank line, a
\* declaration, the first line of a colorbase block, a line inside it with
\* parentheses of its own, the line that closes a block, the first line of
\* another block, a colorbase entry on one line, and a comment that names
\* colorbase
BlankLine == <<>>

StylesheetLines ==
    { BlankLine,
      <<"$", "a", ":", "1", ";">>,
      <<" ", " ">> \o ColorBase \o <<"\"", ":", " ", "(">>,
      <<" ", "x", ":", "(", "f", ")", ",">>,
      <<" ", ")", ",">>,
      <<"\"", "o", "\"", ":", "(">>,
      ColorBase \o <<"-", "x", "\"", ":", "r", ",">>,
      <<"/", "/", " ">> \o ColorBase \o <<" ", "(">> }

Stylesheets ==
    { Str(join(ls)) : ls \in UNION {[1..n -> StylesheetLines] : n \in 1..MaxLines} }

SCSSInit ==
    /\ disk \in Stylesheets \cup {Missing}
    /\ data = Missing
    /\ filteredContent = Missing
    /\ pc = "readFile"
    /\ console = <<>>
    /\ argument = <<>>
    /\ returned = <<>>
    /\ heap = <<>>
    /\ tokens = Undefined
    /\ options = NoOptions
    /\ allModes = <<>>
    /\ regexPatterns = <<>>
    /\ outputs = <<>>
    /\ modeIndex = 0
    /\ result = Pending
    /\ run = 1
    /\ previous = Pending
    /\ groupsByType = <<>>

\* the callback of fs.readFile with an error
readFileFailed ==
    /\ pc = "readFile"
    /\ disk = Missing
    /\ console' = console \o << [label |-> "Error reading the SCSS file:", error |-> "ENOENT"] >>
    /\ pc' = "done"
    /\ UNCHANGED <<heap, tokens, options, allModes, regexPatterns, outputs, modeIndex,
                   result, run, previous, groupsByType, argument, returned,
                   disk, data, filteredContent>>

\* the callback of fs.readFile with the data: the lines are filtered and
\* fs.writeFile is called
processSCSSFile ==
    /\ pc = "readFile"
    /\ disk # Missing
    /\ data' = disk
    /\ filteredContent' = Str(join(filterLines(split(disk.s), 1, FALSE, 0)))
    /\ pc' = "writeFile"
    /\ UNCHANGED <<heap, tokens, options, allModes, regexPatterns, outputs, modeIndex,
                   result, console, run, previous, groupsByType, argument, returned,
                   disk>>

\* fs.writeFile has written the file, and its callback logs the success
writeFileDone ==
    /\ pc = "writeFile"
    /\ disk' = filteredContent
    /\ console' = console \o << [label |-> "SCSS file processed successfully.", error |-> ""] >>
    /\ pc' = "done"
    /\ UNCHANGED <<heap, tokens, options, allModes, regexPatterns, outputs, modeIndex,
                   result, run, previous, groupsByType, argument, returned,
                   data, filteredContent>>

\* fs.writeFile has failed before it wrote, and its callback logs the error
writeFileFailed ==
    /\ pc = "writeFile"
    /\ console' = console \o << [label |-> "Error writing the SCSS file:", error |-> "EACCES"] >>
    /\ pc' = "done"
    /\ UNCHANGED <<heap, tokens, options, allModes, regexPatterns, outputs, modeIndex,
                   result, run, previous, groupsByType, argument, returned,
                   disk, data, filteredContent>>

SCSSNext ==
    \/ readFileFailed
    \/ processSCSSFile
    \/ writeFileDone
    \/ writeFileFailed

SCSSSpec == SCSSInit /\ [][SCSSNext]_vars

(***************************************************************************)
(* The post-processing script run twice on the same file: the second run   *)
(* reads what the first has left on the disk.                              *)
(***************************************************************************)
MaxRerunLines == 4

RerunInit ==
    /\ disk \in { Str(join(ls)) :
                     ls \in UNION {[1..n -> StylesheetLines] : n \in 1..MaxRerunLines} }
                 \cup {Missing}
    /\ data = Missing
    /\ filteredContent = Missing
    /\ pc = "readFile"
    /\ console = <<>>
    /\ argument = <<>>
    /\ returned = <<>>
    /\ heap = <<>>
    /\ tokens = Undefined
    /\ options = NoOptions
    /\ allModes = <<>>
    /\ regexPatterns = <<>>
    /\ outputs = <<>>
    /\ modeIndex = 0
    /\ result = Pending
    /\ run = 1
    /\ previous = Pending
    /\ groupsByType = <<>>

\* the script is executed again, processSCSSFile(filePath): the locals of
\* the finished run are dead, and kept here to be spoken of
runScriptAgain ==
    /\ pc = "done"
    /\ run < 2
    /\ run' = run + 1
    /\ previous' = [data |-> data, filteredContent |-> filteredContent, console |-> console]
    /\ data' = Missing
    /\ filteredContent' = Missing
    /\ console' = <<>>
    /\ pc' = "readFile"
    /\ UNCHANGED <<heap, tokens, options, allModes, regexPatterns, outputs, modeIndex,
                   result, groupsByType, argument, returned, disk>>

RerunNext ==
    \/ readFileFailed
    \/ processSCSSFile
    \/ writeFileDone
    \/ writeFileFailed
    \/ runScriptAgain

RerunSpec == RerunInit /\ [][RerunNext]_vars

(***************************************************************************)
(* What the claims speak of.                                               *)
(***************************************************************************)
\* the records build has pushed or returned so far
AllRecords == Range(outputs) \cup Range(result.outputs)

\* the input tokens
InputTokens == {heap[r] : r \in Range(tokens.items)}

\* the token id matches one of the exclusion patterns of the options
MatchesExclusion(token) ==
    \E i \in DOMAIN excludePatterns.items :
        /\ ~RegExpSyntaxError(excludePatterns.items[i])
        /\ test(RegExp(excludePatterns.items[i]), ToStringJS(token.id))

\* an x:Key (or the key a comment names) that belongs to the token: its id,
\* or its id with a layer suffix
OwnsKey(token, key) ==
    \/ key = ToStringJS(token.id)
    \/ /\ Len(key) > Len(ToStringJS(token.id)) + 1
       /\ SubSeq(key, 1, Len(ToStringJS(token.id)) + 1) = ToStringJS(token.id) \o <<"-">>

\* the items of a document that render a token
KeyedItems(contents) == {i \in DOMAIN contents : "key" \in DOMAIN contents[i]}

ModeFilename(collectionName, mode) ==
    outputDirectory.path \o "/theme." \o collectionName \o "." \o mode \o ".xaml"

\* C1: in the base document and in every mode document, each rendered item
\* belongs to a token of the input whose id matches no exclusion pattern
C1_ExcludedNeverRendered ==
    \A rec \in AllRecords :
        \A i \in KeyedItems(rec.contents) :
            \E token \in InputTokens :
                /\ OwnsKey(token, rec.contents[i].key)
                /\ ~MatchesExclusion(token)

\* a build has returned a mode document of a collection one of whose
\* tokens, overriding that mode, is excluded
C1_Witness ==
    /\ result.status = "fulfilled"
    /\ \E token \in InputTokens :
           /\ MatchesExclusion(token)
           /\ Truthy(ModeEntry(token, "dark"))
           /\ token.extensions.figma.t = "object"
           /\ \E rec \in Range(result.outputs) :
                  rec.filename =
                      ModeFilename(token.extensions.figma.collection.name, "dark")

\* the token defines an override for the mode: the mode is a key of its
\* extensions.mode, whatever the value
DefinesOverride(token, mode) == mode \in Range(ModeKeys(token))

\* the token as a mode token: its value replaced by the whole override
WithOverride(token, mode) == [token EXCEPT !.value = ModeEntry(token, mode)]

\* the items of a document that belong to the token, in document order
ItemsOf(contents, token) ==
    SelectSeq(contents,
              LAMBDA item : "key" \in DOMAIN item /\ OwnsKey(token, item.key))

\* C2: when build has returned, every mode that a token (one the exclusion
\* patterns keep) overrides has exactly one document for the token's
\* collection, named theme.<collection>.<mode>.xaml under the output
\* directory, in which the token is rendered with its value for the mode
\* and which renders only tokens of that collection overriding that mode
C2_OneDocumentPerCollectionAndMode ==
    result.status = "fulfilled" =>
        \A token \in InputTokens :
            \A mode \in Range(ModeKeys(token)) :
                (~MatchesExclusion(token) /\ token.extensions.figma.t = "object") =>
                    LET name == token.extensions.figma.collection.name
                        docs == {i \in DOMAIN result.outputs :
                                     result.outputs[i].filename = ModeFilename(name, mode)}
                    IN  /\ Cardinality(docs) = 1
                        /\ \A i \in docs :
                               /\ ItemsOf(result.outputs[i].contents, token)
                                      = convertTokenToMAUI(WithOverride(token, mode), NoMode).xaml
                               /\ \A k \in KeyedItems(result.outputs[i].contents) :
                                      \E other \in InputTokens :
                                          /\ OwnsKey(other, result.outputs[i].contents[k].key)
                                          /\ DefinesOverride(other, mode)
                                          /\ other.extensions.figma.collection.name = name

\* the groups of the mode that is being built hold a token with this id
KeptIn(grouped, id) ==
    \E i \in DOMAIN grouped.groups :
        \E j \in DOMAIN grouped.groups[i].tokens :
            grouped.heap[grouped.groups[i].tokens[j]].id = id

\* C3: for each detected mode, groupTokensByCollectionAndMode keeps a token
\* the patterns do not exclude if and only if the token defines an override
\* for the mode, whatever the override is; a kept token has its value
\* replaced by the override, its id and type unchanged, and lies in the one
\* group of its collection
C3_KeepsEveryOverride ==
    pc = "modes" =>
        \A mode \in Range(allModes) :
            LET grouped == groupTokensByCollectionAndMode(
                               heap, tokens.items, mode, regexPatterns)
            IN  ~grouped.raised =>
                    /\ \A token \in InputTokens :
                           KeptIn(grouped, token.id)
                               <=> (DefinesOverride(token, mode) /\ ~MatchesExclusion(token))
                    /\ \A i \in DOMAIN grouped.groups :
                           \A j \in DOMAIN grouped.groups[i].tokens :
                               \E token \in InputTokens :
                                   /\ grouped.heap[grouped.groups[i].tokens[j]]
                                          = WithOverride(token, mode)
                                   /\ token.extensions.figma.collection.name
                                          = grouped.groups[i].name
                                   /\ \A k \in DOMAIN grouped.groups :
                                          \A l \in DOMAIN grouped.groups[k].tokens :
                                              grouped.heap[grouped.groups[k].tokens[l]].id = token.id
                                                  => (k = i /\ l = j)

\* the positions of the input at which the tokens of a group stand
PositionsOf(grp) ==
    [j \in DOMAIN grp.tokens |->
         CHOOSE k \in DOMAIN tokens.items : tokens.items[k] = grp.tokens[j]]

RECURSIVE SumOfSizes(_)
SumOfSizes(groups) ==
    IF groups = <<>> THEN 0 ELSE Len(Head(groups).tokens) + SumOfSizes(Tail(groups))

SomePatternInvalid ==
    \E i \in DOMAIN excludePatterns.items : RegExpSyntaxError(excludePatterns.items[i])

\* C5: build hands its caller either the complete list (the base document
\* first, then every document of every detected mode, the whole forEach
\* done) or an error and no record; a token collection that is no array,
\* invalid options or a failing mode document leave no record returned
C5_AllOrNothing ==
    /\ result.status # "fulfilled" => result.outputs = <<>>
    /\ result.status = "rejected" => result.error # NoError
    /\ result.status = "fulfilled" =>
           /\ tokens.t = "array"
           /\ excludePatterns.t = "array"
           /\ outputDirectory.t = "string"
           /\ ~SomePatternInvalid
           /\ result.outputs = outputs
           /\ modeIndex = Len(allModes) + 1
           /\ result.outputs # <<>>
           /\ result.outputs[1].filename = outputDirectory.path \o "/theme.xaml"
           /\ \A mode \in Range(allModes) :
                  \A rec \in Range(createResourceDictionaryForMode(
                                       heap, tokens.items, regexPatterns, mode,
                                       outputDirectory.path).outputs) :
                      rec \in Range(result.outputs)

\* build failed on a mode document after it had pushed the base document
\* and the documents of an earlier mode
C5_Witness ==
    /\ pc = "done"
    /\ result.status = "rejected"
    /\ Len(outputs) >= 2

\* C6: with an invalid pattern in excludePatterns the build fails, before
\* any document is made, and the error its caller receives names the
\* invalid pattern
C6_InvalidPatternIsReported ==
    (pc = "done" /\ tokens.t = "array" /\ SomePatternInvalid) =>
        /\ result.status = "rejected"
        /\ outputs = <<>>
        /\ result.error.pattern \in Range(excludePatterns.items)
        /\ RegExpSyntaxError(result.error.pattern)

\* C7: a malformed leaf value never makes the conversion raise: a build
\* whose token collection is an array, whose patterns are valid and whose
\* mode tokens all name their collection returns its documents
C7_MalformedLeafNeverRaises ==
    ( /\ pc = "done"
      /\ tokens.t = "array"
      /\ ~SomePatternInvalid
      /\ \A token \in InputTokens :
             ModeKeys(token) # <<>> => token.extensions.figma.t = "object" )
        => result.status = "fulfilled"

\* C8: the second invocation of build on the same tokens and options hands
\* its caller what the first did: the same records in the same order, or
\* the same error
C8_SameInputSameOutput ==
    (run = 2 /\ pc = "done") => result = previous

\* a second invocation has returned a base document and mode documents
C8_Witness ==
    /\ run = 2
    /\ pc = "done"
    /\ result.status = "fulfilled"
    /\ Len(result.outputs) >= 2

\* C9: no step of build writes to an object that exists (the input tokens
\* keep id, type, value and extensions) nor changes the input array; an
\* object a step makes is a copy of an input token that differs from it in
\* the value alone, which is the token's override for a detected mode
C9_InputNeverMutated ==
    [][ /\ tokens' = tokens
        /\ \A r \in DOMAIN heap : heap'[r] = heap[r]
        /\ \A r \in (DOMAIN heap') \ (DOMAIN heap) :
               \E source \in Range(tokens.items) :
                   \E mode \in Range(allModes) :
                       heap'[r] = [heap[source] EXCEPT
                                      !.value = ModeEntry(heap[source], mode)] ]_vars

\* a mode token exists whose value differs from the value of its source
C9_Witness ==
    /\ tokens.t = "array"
    /\ \E r \in DOMAIN heap :
           /\ r \notin Range(tokens.items)
           /\ \E source \in Range(tokens.items) :
                  /\ heap[r].id = heap[source].id
                  /\ heap[r].value # heap[source].value

\* the keys of the Shadow elements of a document that belong to the token
ShadowKeys(contents, token) ==
    LET elements == SelectSeq(contents,
                        LAMBDA item : item.el = "Shadow" /\ OwnsKey(token, item.key))
    IN  [i \in DOMAIN elements |-> elements[i].key]

\* the keys the claim gives a shadow token of n layers
ExpectedShadowKeys(token, n) ==
    IF n = 1 THEN <<ToStringJS(token.id)>>
    ELSE [i \in 1..n |-> ToStringJS(token.id) \o <<"-">> \o Digits(i)]

\* C10: a shadow token of n layers converts to exactly n Shadow elements,
\* in layer order, keyed by the bare id when n = 1 and by <id>-1, ...,
\* <id>-n when n >= 2; so does each shadow token the exclusion patterns
\* keep in the base document
C10_ShadowKeys ==
    /\ tokens.t = "array" => \A token \in InputTokens :
           ( /\ token.type = Str(shadow)
             /\ \A i \in DOMAIN token.value.items :
                    Field(token.value.items[i], "spread").t = "string" ) =>
               LET converted == convertTokenToMAUI(token, NoMode)
               IN  /\ ~converted.raised
                   /\ ShadowKeys(converted.xaml, token)
                          = ExpectedShadowKeys(token, Len(token.value.items))
    /\ \A records \in {outputs, result.outputs} :
        records # <<>> =>
            \A token \in InputTokens :
                (token.type = Str(shadow) /\ ~MatchesExclusion(token)) =>
                    ShadowKeys(records[1].contents, token)
                        = ExpectedShadowKeys(token, Len(token.value.items))

\* build has returned a base document with a shadow token of one layer and
\* a shadow token of several layers
C10_Witness ==
    /\ result.status = "fulfilled"
    /\ \E one, several \in InputTokens :
           /\ one.type = Str(shadow)
           /\ several.type = Str(shadow)
           /\ Len(one.value.items) = 1
           /\ Len(several.value.items) >= 2
           /\ ShadowKeys(result.outputs[1].contents, one) # <<>>
           /\ ShadowKeys(result.outputs[1].contents, several) # <<>>

\* the references of the input tokens that no exclusion pattern matches, in
\* input order
KeptRefs == SelectSeq(tokens.items, LAMBDA ref : ~MatchesExclusion(heap[ref]))

\* the name of the type of the token, as a section header spells it
TypeNameOf(ref) == ToStringJS(heap[ref].type)

\* the kept tokens that are the first of their type, in input order
FirstOfTypes ==
    LET first(i) == \A j \in 1..(i - 1) : TypeNameOf(KeptRefs[j]) # TypeNameOf(KeptRefs[i])
        positions == SelectSeq([i \in DOMAIN KeptRefs |-> i], first)
    IN  [k \in DOMAIN positions |-> KeptRefs[positions[k]]]

\* the section of a type: its header, then the fragment of each kept token
\* of the type, in input order
SectionOf(name) ==
    << [el |-> "comment", kind |-> "Tokens", type |-> toUpperCase(name)] >>
    \o Concat([i \in DOMAIN KeptRefs |->
                   IF TypeNameOf(KeptRefs[i]) = name
                   THEN convertTokenToMAUI(heap[KeptRefs[i]], NoMode).xaml
                   ELSE <<>>])

C12_FilenameOptionNamesBaseDocument ==
    (result.status = "fulfilled" /\ options.filename.t = "string") =>
        result.outputs[1].filename = outputDirectory.path \o "/" \o options.filename.path

\* the token has none of the four types the converter knows
UnknownType(token) ==
    token.type \notin {Str(color), Str(dimension), Str(shadow), Str(typography)}

\* the documents build makes of a token collection under the patterns and
\* the directory of the state, or that it fails
DocumentsOf(toks) ==
    LET base  == createResourceDictionary(heap, toks, regexPatterns)
        modes == detectAllModes(heap, toks)
        docs  == [k \in DOMAIN modes |->
                      createResourceDictionaryForMode(heap, toks, regexPatterns,
                                                      modes[k], outputDirectory.path)]
    IN  [raised  |-> base.raised \/ \E k \in DOMAIN docs : docs[k].raised,
         outputs |-> << [filename |-> outputDirectory.path \o "/theme.xaml",
                         contents |-> base.xaml] >>
                     \o Concat([k \in DOMAIN docs |-> docs[k].outputs])]

\* the input without the token at position i
Without(i) == SubSeq(tokens.items, 1, i - 1) \o SubSeq(tokens.items, i + 1, Len(tokens.items))

\* the fragments of a document: what it holds besides the section headers
Fragments(contents) ==
    SelectSeq(contents, LAMBDA item : ~(item.el = "comment" /\ item.kind = "Tokens"))

IsNumeral(text) ==
    /\ \E i \in DOMAIN text : text[i] \in Range(DigitChars)
    /\ \A i \in DOMAIN text : text[i] \in Range(DigitChars) \cup {"."}
    /\ Cardinality({i \in DOMAIN text : text[i] = "."}) <= 1

\* a well-formed pixel value "Npx"
WellFormedPx(value) ==
    /\ value.t = "string"
    /\ endsWith(value.s, px)
    /\ IsNumeral(SubSeq(value.s, 1, Len(value.s) - Len(px)))

\* C14: parseDimension returns "N" for each well-formed "Npx" and "16" for
\* every other value
C14_ParseDimensionNumberOrDefault ==
    (pc = "returned" /\ argument.fn = "parseDimension") =>
        returned = IF WellFormedPx(argument.args[1])
                   THEN SubSeq(argument.args[1].s, 1, Len(argument.args[1].s) - Len(px))
                   ELSE Sixteen

\* the hexadecimal digits, of either case
HexDigits ==
    {"0","1","2","3","4","5","6","7","8","9",
     "a","b","c","d","e","f","A","B","C","D","E","F"}

\* a color of the form #RRGGBBAA
IsRGBA(value) ==
    /\ value.t = "string"
    /\ Len(value.s) = 9
    /\ value.s[1] = "#"
    /\ \A i \in 2..9 : value.s[i] \in HexDigits

\* C15: convertColorFormat returns #AARRGGBB for #RRGGBBAA, the alpha pair
\* first and the six color digits after it in their order, and returns
\* every other value as it is (as the markup prints it)
C15_ColorAlphaFirst ==
    (pc = "returned" /\ argument.fn = "convertColorFormat") =>
        IF IsRGBA(argument.args[1])
        THEN /\ Len(returned) = 9
             /\ returned[1] = "#"
             /\ SubSeq(returned, 2, 3) = SubSeq(argument.args[1].s, 8, 9)
             /\ SubSeq(returned, 4, 9) = SubSeq(argument.args[1].s, 2, 7)
        ELSE returned = ToStringJS(argument.args[1])

\* a color #RRGGBBAA with an upper case digit and an alpha pair that
\* differs from the red pair was converted
C15_Witness ==
    /\ pc = "returned"
    /\ argument.fn = "convertColorFormat"
    /\ IsRGBA(argument.args[1])
    /\ SubSeq(argument.args[1].s, 8, 9) = <<"F","f">>
    /\ SubSeq(argument.args[1].s, 2, 3) = <<"1","0">>
    /\ returned # argument.args[1].s

\* the table of the numeric weights
WeightTable ==
    { <<100, <<"T","h","i","n">> >>,
      <<200, <<"E","x","t","r","a","L","i","g","h","t">> >>,
      <<300, <<"L","i","g","h","t">> >>,
      <<400, <<"R","e","g","u","l","a","r">> >>,
      <<500, <<"M","e","d","i","u","m">> >>,
      <<600, <<"S","e","m","i","B","o","l","d">> >>,
      <<700, <<"B","o","l","d">> >>,
      <<800, <<"E","x","t","r","a","B","o","l","d">> >>,
      <<900, <<"B","l","a","c","k">> >> }

\* a string without its spaces, its first letter in upper case and the rest
\* in lower case
CaseNormalized(text) ==
    LET bare == SelectSeq(text, LAMBDA c : c # " ")
    IN  [i \in DOMAIN bare |-> IF i = 1 THEN UpperChar(bare[i]) ELSE LowerChar(bare[i])]

\* the weight name the claim gives a weight
ExpectedWeightName(weight) ==
    CASE weight.t = "number" /\ \E row \in WeightTable : row[1] = weight.n ->
             (CHOOSE row \in WeightTable : row[1] = weight.n)[2]
      [] weight.t = "string"
           /\ \E row \in WeightTable : row[2] = CaseNormalized(weight.s) ->
             CaseNormalized(weight.s)
      [] OTHER -> <<"R","e","g","u","l","a","r">>

\* C16: the font family is followed by the weight name: the name of the
\* table for the numbers 100, ..., 900, the normalized string when it is a
\* name of the table, and Regular for every other weight
C16_FontWeightName ==
    (pc = "returned" /\ argument.fn = "convertFontWeightToFontFamily") =>
        returned = ToStringJS(argument.args[1]) \o ExpectedWeightName(argument.args[2])

\* a weight written in lower case between spaces was given its name
C16_Witness ==
    /\ pc = "returned"
    /\ argument.fn = "convertFontWeightToFontFamily"
    /\ argument.args[2] = Str(<<" ","b","o","l","d"," ">>)
    /\ returned = ToStringJS(argument.args[1]) \o <<"B","o","l","d">>

\* the per-mille integer round(p / 100 * 1000) of a percentage p, a tie
\* going up
PerMille(p) == (Hundredths(p) + 5) \div 10

\* C17: parseLetterSpacing gives "p%" at the font size f the result it gives
\* the pixels that are p percent of f, and that result is
\* round(p / 100 * 1000) whatever f is
C17_LetterSpacingUnitConsistent ==
    \A p \in Percentages, f \in FontSizes :
        (pc = "returned" /\ argument = LetterSpacingCall(Str(p \o <<"%">>), f)) =>
            /\ returned = parseLetterSpacing(Str(PixelsOf(p, f) \o px), Literal(f))
            /\ returned = Literal(PerMille(p))

\* the TextDecorations value the claim gives a textDecoration string
ExpectedDecoration(text) ==
    LET lower == toLowerCase(text)
    IN  CASE lower = <<"u","n","d","e","r","l","i","n","e">> ->
                 <<"U","n","d","e","r","l","i","n","e">>
          [] lower = <<"l","i","n","e","-","t","h","r","o","u","g","h">> ->
                 <<"S","t","r","i","k","e","t","h","r","o","u","g","h">>
          [] lower = <<"o","v","e","r","l","i","n","e">> ->
                 <<"O","v","e","r","l","i","n","e">>
          [] OTHER -> <<"N","o","n","e">>

\* the textDecoration of the typography value a call was given
DecorationGiven == Field(argument.args[2], "textDecoration")

\* C18: the TextDecorations setter of a typography token holds Underline,
\* Strikethrough, Overline or None for UNDERLINE, LINE-THROUGH, OVERLINE or
\* NONE written in any letter case, and None for every other string
C18_TextDecorationsIgnoreCase ==
    (pc = "returned" /\ argument.fn = "convertTypographyToXAML"
        /\ DecorationGiven.t = "string") =>
        /\ ~returned.raised
        /\ returned.xaml[1].TextDecorations = ExpectedDecoration(DecorationGiven.s)

\* line-through in lower case was written as Strikethrough
C18_Witness ==
    /\ pc = "returned"
    /\ argument.fn = "convertTypographyToXAML"
    /\ DecorationGiven = Str(<<"l","i","n","e","-","t","h","r","o","u","g","h">>)
    /\ returned.xaml[1].TextDecorations = <<"S","t","r","i","k","e","t","h","r","o","u","g","h">>

\* the opening less the closing parentheses of the lines i..j
RECURSIVE Balance(_, _, _)
Balance(lines, i, j) ==
    IF i > j THEN 0
    ELSE Matches(lines[j], "(") - Matches(lines[j], ")") + Balance(lines, i, j - 1)

\* the lines i..j are a block: line i, trimmed, starts with "colorbase, and
\* its parentheses balance over several lines, on line j for the first time
IsBlock(lines, i, j) ==
    /\ i < j
    /\ startsWith(trim(lines[i]), ColorBase)
    /\ Balance(lines, i, j) = 0
    /\ \A k \in i..(j - 1) : Balance(lines, i, k) > 0

\* the last line of the block that line i begins, 0 when it begins none
BlockEnd(lines, i) ==
    IF \E j \in DOMAIN lines : IsBlock(lines, i, j)
    THEN CHOOSE j \in DOMAIN lines : IsBlock(lines, i, j)
    ELSE 0

\* line i begins with "colorbase outside the blocks that begin before it
RECURSIVE BeginsBlock(_, _)
BeginsBlock(lines, i) ==
    /\ startsWith(trim(lines[i]), ColorBase)
    /\ \A h \in 1..(i - 1) : BeginsBlock(lines, h) => BlockEnd(lines, h) < i

\* every line that begins with "colorbase outside a block begins a block
BlocksBalance(lines) ==
    \A i \in DOMAIN lines : BeginsBlock(lines, i) => BlockEnd(lines, i) # 0

\* line n is a line of a block
InBlock(lines, n) ==
    \E i \in 1..n : BeginsBlock(lines, i) /\ n <= BlockEnd(lines, i)

\* the lines outside the blocks, in their order
RECURSIVE OutsideBlocks(_, _)
OutsideBlocks(lines, n) ==
    IF n = 0 THEN <<>>
    ELSE OutsideBlocks(lines, n - 1)
             \o (IF InBlock(lines, n) THEN <<>> ELSE <<lines[n]>>)

\* the script has written the stylesheet
Written ==
    /\ pc = "done"
    /\ console # <<>>
    /\ console[Len(console)].label = "SCSS file processed successfully."

LayersGiven == argument.args[2].items

\* the inset flag of a layer is set
InsetSet(layer) == Field(layer, "inset") = Bool(TRUE)

\* the spread of a layer as a numeral: what is written before px
SpreadNumeral(layer) ==
    SubSeq(Field(layer, "spread").s, 1, Len(Field(layer, "spread").s) - 2)

\* the positions in an output of the comments of the given kinds
CommentsAt(xaml, kinds) ==
    {i \in DOMAIN xaml : xaml[i].el = "comment" /\ xaml[i].kind \in kinds}

\* the position in an output of the Shadow element of layer n
ShadowAt(xaml, n) ==
    CHOOSE i \in DOMAIN xaml :
        /\ xaml[i].el = "Shadow"
        /\ Cardinality({h \in 1..i : xaml[h].el = "Shadow"}) = n

\* C20: a shadow token is given one group comment, the one for inset
\* shadows when a layer has its inset flag set and the one for drop shadows
\* when none has, and the Shadow element of a layer is followed by a frame
\* comment, whose margin is the spread of the layer on its four sides,
\* exactly when the inset flag of the layer is not set
C20_ShadowComments ==
    (pc = "returned" /\ argument.fn = "convertShadowToMAUI") =>
        LET xaml == returned.xaml
        IN  /\ ~returned.raised
            /\ Cardinality(CommentsAt(xaml, {"Inset shadows", "Drop shadows"})) = 1
            /\ (CommentsAt(xaml, {"Inset shadows"}) # {})
                   <=> (\E n \in DOMAIN LayersGiven : InsetSet(LayersGiven[n]))
            /\ Cardinality({i \in DOMAIN xaml : xaml[i].el = "Shadow"}) = Len(LayersGiven)
            /\ Cardinality(CommentsAt(xaml, {"Frame for drop shadow"}))
                   = Cardinality({n \in DOMAIN LayersGiven : ~InsetSet(LayersGiven[n])})
            /\ \A n \in DOMAIN LayersGiven :
                   LET next == ShadowAt(xaml, n) + 1
                       m    == SpreadNumeral(LayersGiven[n])
                   IN  ~InsetSet(LayersGiven[n]) =>
                           /\ next \in CommentsAt(xaml, {"Frame for drop shadow"})
                           /\ xaml[next].key = xaml[next - 1].key
                           /\ xaml[next].Margin =
                                  m \o <<",">> \o m \o <<",">> \o m \o <<",">> \o m

\* a shadow of a drop layer with a spread of 1.5 pixels and an inset layer
\* was given the comment for inset shadows and one frame comment, for the
\* first layer
C20_Witness ==
    /\ pc = "returned"
    /\ argument.fn = "convertShadowToMAUI"
    /\ Len(LayersGiven) = 2
    /\ ~InsetSet(LayersGiven[1])
    /\ SpreadNumeral(LayersGiven[1]) = <<"1", ".", "5">>
    /\ InsetSet(LayersGiven[2])
    /\ CommentsAt(returned.xaml, {"Inset shadows"}) = {1}
    /\ CommentsAt(returned.xaml, {"Frame for drop shadow"}) = {3}
    /\ returned.xaml[3].Margin = <<"1", ".", "5", ",", "1", ".", "5", ",",
                                   "1", ".", "5", ",", "1", ".", "5">>

\* C21: a name of validFontWeights passed as a string gets the weight name
\* that its numeric weight gets, so no name of the table falls back to
\* Regular
C21_WeightNamesAgreeWithNumbers ==
    (/\ pc = "returned"
     /\ argument.fn = "convertFontWeightToFontFamily"
     /\ argument.args[2].t = "string"
     /\ argument.args[2].s \in Range(validFontWeights)) =>
        returned = convertFontWeightToFontFamily(
                       argument.args[1],
                       Num(100 * IndexIn(argument.args[2].s, validFontWeights)))

\* the positions of the elements of a document that carry an x:Key
KeyedElements(xaml) ==
    {i \in DOMAIN xaml : xaml[i].el \in {"Color", "x:Double", "Shadow", "Style"}}

\* C22: when the ids of the input tokens are pairwise distinct, so are the
\* x:Key values of the base document, the keys <id>-i of the layers of a
\* shadow included
C22_KeysDistinct ==
    (/\ pc = "assembled"
     /\ ~returned.raised
     /\ \A i, j \in DOMAIN tokens.items :
            heap[tokens.items[i]].id = heap[tokens.items[j]].id => i = j) =>
        \A i, j \in KeyedElements(returned.xaml) :
            returned.xaml[i].key = returned.xaml[j].key => i = j

\* C23: the filenames of the records one build returns are pairwise
\* distinct: the base document comes first and is the only one named
\* theme.xaml, and no two mode documents have the same filename
C23_FilenamesDistinct ==
    result.status = "fulfilled" =>
        /\ result.outputs[1].filename = outputDirectory.path \o "/theme.xaml"
        /\ \A i, j \in DOMAIN result.outputs :
               result.outputs[i].filename = result.outputs[j].filename => i = j

\* the sequence a is b with some of its elements left out
RECURSIVE IsSubsequence(_, _)
IsSubsequence(a, b) ==
    IF a = <<>> THEN TRUE
    ELSE IF b = <<>> THEN FALSE
    ELSE IF Head(a) = Head(b) THEN IsSubsequence(Tail(a), Tail(b))
    ELSE IsSubsequence(a, Tail(b))

\* the lines of a content; a content without characters has none
LinesOf(content) == IF content.s = <<>> THEN <<>> ELSE split(content.s)

\* the finished run of the script has written its output to the disk
WrittenBefore ==
    /\ run = 2
    /\ previous.console # <<>>
    /\ previous.console[Len(previous.console)].label = "SCSS file processed successfully."

\* C24: the lines the filter keeps are a subsequence of the lines it read,
\* none of them, trimmed, starts with "colorbase, and the script run on
\* the file it has written keeps every line: the content is the same
C24_FilterIdempotent ==
    data # Missing =>
        /\ IsSubsequence(LinesOf(filteredContent), split(data.s))
        /\ \A i \in DOMAIN LinesOf(filteredContent) :
               ~startsWith(trim(LinesOf(filteredContent)[i]), ColorBase)
        /\ WrittenBefore =>
               /\ data = previous.filteredContent
               /\ filteredContent = data

\* the first run has removed a block and a colorbase entry of one line from
\* a stylesheet, the second run has read the line that was left and has
\* written it again
C24_Witness ==
    /\ WrittenBefore
    /\ Written
    /\ split(previous.data.s) = << <<"$", "a", ":", "1", ";">>,
                                   ColorBase \o <<"-", "x", "\"", ":", "r", ",">>,
                                   <<" ", " ">> \o ColorBase \o <<"\"", ":", " ", "(">>,
                                   <<" ", ")", ",">> >>
    /\ split(data.s) = << <<"$", "a", ":", "1", ";">> >>
    /\ disk = data

====
